---- MODULE Spec2Model ----
(***************************************************************************)
(* A model of the docutils document tree (docutils/nodes.py): the          *)
(* Node/Element child lists and parent links, the walk()/walkabout()       *)
(* traversal engine with its pruning exceptions, and the document root's   *)
(* id and name registries.                                                 *)
(*                                                                         *)
(* Three specifications share the variables:                               *)
(*   SpecWalk  a traversal of a tree by a visitor that raises signals      *)
(*   SpecTree  child-list mutations of Elements                            *)
(*   SpecIds   the document's set_id / note_* registration calls           *)
(***************************************************************************)
EXTENDS Integers, Sequences, FiniteSets, TLC

\* ---------------------------------------------------------------- bounds
\* nodes of the trees that are traversed
MaxWalkNodes == 4
\* pruning signals one visitor raises during one traversal
MaxSignals == 3
\* length of an Element's children list
MaxChildren == 2
\* length of a list of nodes passed to extend / insert / slice assignment
MaxItems == 1
\* child-list operations in one run
MaxOps == 2
\* registration calls on one document
MaxCalls == 3
\* append calls that build the trees to validate
MaxBuild == 3
\* validation calls in one run
MaxValidations == 1
\* pairs of a content model passed to validate_content
MaxModel == 2
\* children of the element validate_content is applied to
MaxElements == 3
\* nodes of the trees a visitor changes while they are traversed
MaxEditNodes == 3
\* changes one visitor makes during one traversal
MaxEdits == 1
\* signals a visitor that changes the tree raises during one traversal
MaxEditSignals == 1
\* nodes of the trees that are copied
MaxCopyNodes == 3
\* copy() / deepcopy() calls, and changes of a copy's list attributes
MaxCopies == 1
MaxAppends == 1
\* system messages in the documents that are filtered, their highest
\* level, the append calls that build a document, and the runs of the
\* transform
MaxMessages == 2
MaxLevel == 2
MaxAttach == 3
MaxApplies == 2
\* characters of the strings make_id is called on
MaxIdLen == 4
\* children of the Element that children are taken out of
MaxKids == 3
\* nodes of a tree findall is called on
MaxFindNodes == 4
\* changes the caller makes to the tree while a findall iterator runs
MaxFindEdits == 1

\* Python's None, where a node is expected (nodes are numbered from 1)
None == 0

VARIABLES
    \* Element.children: node -> sequence of nodes
    children,
    \* Node.parent: node -> node or None
    parent,
    \* Node._document: node -> the document node or None
    _document,
    \* the number of child-list operations that have run
    nops,
    \* the traversal: which entry point runs ("walk" / "walkabout")
    mode,
    \* the Python call stack of walk()/walkabout() activations
    stack,
    \* what the last finished activation handed to its caller:
    \* "none", "True", "False" (return values) or the name of the
    \* TreePruningException that is propagating
    ret,
    \* nodes in the order visitor.dispatch_visit was called on them
    visited,
    \* nodes in the order visitor.dispatch_departure was called on them
    departed,
    \* the signal the visitor's visit_ / depart_ method raised on a node
    vsig,
    dsig,
    \* Element.attributes of the nodes that are registered: node -> record
    \* with the list attributes ids, names, dupnames and, if set, refuri
    attributes,
    \* document.settings: id_prefix and auto_id_prefix
    settings,
    \* document.ids: id -> node
    ids,
    \* document.nameids: name -> id or None
    nameids,
    \* document.nametypes: name -> explicit (True) or implicit (False)
    nametypes,
    \* document.id_counter: prefix -> number
    id_counter,
    \* document.substitution_defs: name -> the node of its last definition
    substitution_defs,
    \* document.substitution_names: the name in lower case -> name
    substitution_names,
    \* the system messages the reporter returned during the last call, in
    \* order: level, and whether the message was added to msgnode
    messages,
    \* the last registration call: its node, the node's ids before the
    \* call, the value its set_id call returned and the exception raised
    last,
    \* the pairs (node, name) such that note_explicit_target was called on
    \* the node while the node had the name in its names list
    noted_explicit,
    \* the number of registration calls that have run
    ncalls,
    \* the validation calls that have run, in order: the method, the node,
    \* the exception raised with its messages and the node it names, and
    \* the children validate_content returned
    outcome,
    \* the changes the visitor has made to the tree during the traversal:
    \* the operation, the node changed, the child removed or inserted, and
    \* whether the node's loop over its children had the child still to
    \* come (a removal) or had taken its snapshot (an insertion)
    edits,
    \* the objects that exist where objects are created: node -> its
    \* class, its tagname and, for a Text node, its string
    objects,
    \* the list objects attribute values refer to: reference -> items
    lists

treeVars == <<children, parent, _document, nops>>
walkVars == <<mode, stack, ret, visited, departed, vsig, dsig>>
idVars == <<attributes, settings, ids, nameids, nametypes, id_counter,
            substitution_defs, substitution_names, messages, last, noted_explicit, ncalls>>
auxVars == <<outcome, edits, objects, lists>>
vars == <<treeVars, walkVars, idVars, auxVars>>

\* no registration has been made (specifications without a registry)
NoRegistry ==
    /\ attributes = <<>> /\ settings = <<>>
    /\ ids = <<>> /\ nameids = <<>> /\ nametypes = <<>> /\ id_counter = <<>>
    /\ substitution_defs = <<>> /\ substitution_names = <<>>
    /\ messages = <<>> /\ last = <<>> /\ noted_explicit = {} /\ ncalls = 0

\* nothing else has run (specifications of one part of the program)
NoAux == outcome = <<>> /\ edits = {} /\ objects = <<>> /\ lists = <<>>

\* ------------------------------------------------------------- sequences
RECURSIVE SetToSeq(_)
\* the elements of a finite set of integers in increasing order
SetToSeq(S) ==
    IF S = {} THEN <<>>
    ELSE LET m == CHOOSE x \in S : \A y \in S : x <= y
         IN <<m>> \o SetToSeq(S \ {m})

Range(s) == {s[i] : i \in DOMAIN s}

IndexIn(s, x) == CHOOSE i \in DOMAIN s : s[i] = x

\* ============================================================ traversal
\* TreePruningException subclasses caught by the traversal code
Signals == {"SkipChildren", "SkipSiblings", "SkipNode", "SkipDeparture",
            "StopTraversal"}
NoSignal == "none"

WalkNodes == 1..MaxWalkNodes
WalkRoot == 1

\* every ordered tree with n nodes: node i > 1 hangs under a smaller node,
\* children in increasing order
TreeShapes(n) == {pf \in [2..n -> 1..n] : \A i \in 2..n : pf[i] < i}

\* signals raised so far by the visitor
SignalCount == Cardinality({n \in DOMAIN vsig : vsig[n] # NoSignal})
               + Cardinality({n \in DOMAIN dsig : dsig[n] # NoSignal})

\* what a visit_ / depart_ method may do now: return, or raise a signal
MayRaise == IF SignalCount < MaxSignals THEN Signals \cup {NoSignal}
            ELSE {NoSignal}

Frame(n) == [node |-> n, pc |-> "visit", todo |-> <<>>,
             call_depart |-> TRUE, stop |-> FALSE]

Top == stack[Len(stack)]
Pop == SubSeq(stack, 1, Len(stack) - 1)
SetTop(f) == [stack EXCEPT ![Len(stack)] = f]
BoolStr(b) == IF b THEN "True" ELSE "False"

InitWalk ==
    /\ \E n \in WalkNodes : \E pf \in TreeShapes(n) :
          /\ children = [i \in 1..n |-> SetToSeq({j \in 2..n : pf[j] = i})]
          /\ parent = [i \in 1..n |-> IF i = 1 THEN None ELSE pf[i]]
    /\ mode \in {"walk", "walkabout"}
    /\ stack = <<Frame(WalkRoot)>>
    /\ ret = "none"
    /\ visited = <<>>
    /\ departed = <<>>
    /\ vsig = [i \in DOMAIN children |-> NoSignal]
    /\ dsig = [i \in DOMAIN children |-> NoSignal]
    /\ _document = [i \in DOMAIN children |-> None]
    /\ nops = 0
    /\ NoRegistry
    /\ NoAux

\* Node.walk, lines 140-147: dispatch_visit and the handlers around it
WalkVisit ==
    /\ mode = "walk" /\ stack # <<>> /\ Top.pc = "visit"
    /\ \E sig \in MayRaise :
         /\ vsig' = [vsig EXCEPT ![Top.node] = sig]
         /\ visited' = Append(visited, Top.node)
         /\ CASE sig \in {"SkipChildren", "SkipNode"} ->
                   \* except (SkipChildren, SkipNode): return stop
                   stack' = Pop /\ ret' = BoolStr(Top.stop)
              [] sig = "StopTraversal" ->
                   \* except StopTraversal: stop = True; return stop
                   stack' = Pop /\ ret' = "True"
              [] sig = "SkipSiblings" ->
                   \* no handler around dispatch_visit: leaves this activation
                   stack' = Pop /\ ret' = "SkipSiblings"
              [] OTHER ->
                   \* SkipDeparture is ignored; children = self.children[:]
                   /\ stack' = SetTop([Top EXCEPT !.pc = "children",
                                          !.todo = children[Top.node]])
                   /\ ret' = ret
    /\ UNCHANGED <<treeVars, idVars, auxVars, mode, departed, dsig>>

\* Node.walk, lines 149-157: the loop over the snapshot of the children.
\* An activation of walk() ends with a return value or with SkipSiblings
\* (raised by dispatch_visit); nothing else leaves it.
WalkChildren ==
    /\ mode = "walk" /\ stack # <<>> /\ Top.pc = "children"
    /\ CASE ret = "True" ->
              \* if child.walk(visitor): stop = True; break
              stack' = Pop /\ ret' = "True"
         [] ret = "SkipSiblings" ->
              \* except SkipSiblings: pass
              stack' = Pop /\ ret' = BoolStr(Top.stop)
         [] OTHER ->
              IF Top.todo = <<>>
              THEN stack' = Pop /\ ret' = BoolStr(Top.stop)
              ELSE /\ stack' = Append(SetTop([Top EXCEPT !.todo = Tail(@)]),
                                      Frame(Head(Top.todo)))
                   /\ ret' = "none"
    /\ UNCHANGED <<treeVars, idVars, auxVars, mode, visited, departed, vsig, dsig>>

\* Node.walkabout, lines 176-183 and 191-194: which handler takes a signal
\* raised by dispatch_visit, and where the activation goes on.
\*   next = "children": go on to the loop over the children
\*   next = "depart":   go on after the try blocks (line 195)
\*   next = "return":   return stop
\*   next = "raise":    no handler, the exception leaves the activation
\* (a variant in which StopTraversal returns at once, without the departure)
WalkaboutVisitStop(sig) ==
    CASE sig = "SkipNode"      -> [next |-> "return",   call_depart |-> TRUE,  stop |-> FALSE]
      [] sig = "SkipDeparture" -> [next |-> "children", call_depart |-> FALSE, stop |-> FALSE]
      [] sig = "SkipChildren"  -> [next |-> "depart",   call_depart |-> TRUE,  stop |-> FALSE]
      [] sig = "StopTraversal" -> [next |-> "return",   call_depart |-> TRUE,  stop |-> TRUE]
      [] sig = "SkipSiblings"  -> [next |-> "raise",    call_depart |-> TRUE,  stop |-> FALSE]
      [] OTHER                 -> [next |-> "children", call_depart |-> TRUE,  stop |-> FALSE]

\* (a variant in which SkipNode goes on to the departure, as SkipChildren)
WalkaboutVisitSkip(sig) ==
    CASE sig = "SkipNode"      -> [next |-> "depart",   call_depart |-> TRUE,  stop |-> FALSE]
      [] sig = "SkipDeparture" -> [next |-> "children", call_depart |-> FALSE, stop |-> FALSE]
      [] sig = "SkipChildren"  -> [next |-> "depart",   call_depart |-> TRUE,  stop |-> FALSE]
      [] sig = "StopTraversal" -> [next |-> "depart",   call_depart |-> TRUE,  stop |-> TRUE]
      [] sig = "SkipSiblings"  -> [next |-> "raise",    call_depart |-> TRUE,  stop |-> FALSE]
      [] OTHER                 -> [next |-> "children", call_depart |-> TRUE,  stop |-> FALSE]

WalkaboutVisitHandlers(sig) ==
    CASE sig = "SkipNode"      -> [next |-> "return",   call_depart |-> TRUE,  stop |-> FALSE]
      [] sig = "SkipDeparture" -> [next |-> "children", call_depart |-> FALSE, stop |-> FALSE]
      [] sig = "SkipChildren"  -> [next |-> "depart",   call_depart |-> TRUE,  stop |-> FALSE]
      [] sig = "StopTraversal" -> [next |-> "depart",   call_depart |-> TRUE,  stop |-> TRUE]
      [] sig = "SkipSiblings"  -> [next |-> "raise",    call_depart |-> TRUE,  stop |-> FALSE]
      [] OTHER                 -> [next |-> "children", call_depart |-> TRUE,  stop |-> FALSE]

\* Node.walkabout, lines 171-183: dispatch_visit on the node of the activation
WalkaboutVisit ==
    /\ mode = "walkabout" /\ stack # <<>> /\ Top.pc = "visit"
    /\ \E sig \in MayRaise :
         LET h == WalkaboutVisitHandlers(sig) IN
         /\ vsig' = [vsig EXCEPT ![Top.node] = sig]
         /\ visited' = Append(visited, Top.node)
         /\ CASE h.next = "return" -> stack' = Pop /\ ret' = BoolStr(h.stop)
              [] h.next = "raise" -> stack' = Pop /\ ret' = sig
              [] OTHER ->
                   /\ stack' = SetTop([Top EXCEPT !.pc = h.next,
                                          !.call_depart = h.call_depart,
                                          !.stop = h.stop,
                                          !.todo = children[Top.node]])
                   /\ ret' = ret
    /\ UNCHANGED <<treeVars, idVars, auxVars, mode, departed, dsig>>

\* (a variant that returns from the loop without the departure)
WalkaboutChildrenReturn ==
    /\ mode = "walkabout" /\ stack # <<>> /\ Top.pc = "children"
    /\ CASE ret = "True" ->
              /\ stack' = SetTop([Top EXCEPT !.pc = "depart", !.stop = TRUE])
              /\ ret' = "none"
         [] ret \in {"SkipSiblings", "SkipChildren"} ->
              stack' = SetTop([Top EXCEPT !.pc = "depart"]) /\ ret' = "none"
         [] ret = "StopTraversal" ->
              /\ stack' = SetTop([Top EXCEPT !.pc = "depart", !.stop = TRUE])
              /\ ret' = "none"
         [] ret \in {"SkipNode", "SkipDeparture"} ->
              stack' = Pop /\ ret' = ret
         [] OTHER ->
              IF Top.todo = <<>>
              THEN stack' = Pop /\ ret' = BoolStr(Top.stop)
              ELSE /\ stack' = Append(SetTop([Top EXCEPT !.todo = Tail(@)]),
                                      Frame(Head(Top.todo)))
                   /\ ret' = "none"
    /\ UNCHANGED <<treeVars, idVars, auxVars, mode, visited, departed, vsig, dsig>>

\* Node.walkabout, lines 184-194: the loop over the snapshot of the children
WalkaboutChildren ==
    /\ mode = "walkabout" /\ stack # <<>> /\ Top.pc = "children"
    /\ CASE ret = "True" ->
              \* if child.walkabout(visitor): stop = True; break
              /\ stack' = SetTop([Top EXCEPT !.pc = "depart", !.stop = TRUE])
              /\ ret' = "none"
         [] ret \in {"SkipSiblings", "SkipChildren"} ->
              \* except SkipSiblings: pass / except SkipChildren: pass
              stack' = SetTop([Top EXCEPT !.pc = "depart"]) /\ ret' = "none"
         [] ret = "StopTraversal" ->
              \* except StopTraversal: stop = True
              /\ stack' = SetTop([Top EXCEPT !.pc = "depart", !.stop = TRUE])
              /\ ret' = "none"
         [] ret \in {"SkipNode", "SkipDeparture"} ->
              \* raised by a child's depart method: no handler here
              stack' = Pop /\ ret' = ret
         [] OTHER ->
              IF Top.todo = <<>>
              THEN stack' = SetTop([Top EXCEPT !.pc = "depart"]) /\ ret' = "none"
              ELSE /\ stack' = Append(SetTop([Top EXCEPT !.todo = Tail(@)]),
                                      Frame(Head(Top.todo)))
                   /\ ret' = "none"
    /\ UNCHANGED <<treeVars, idVars, auxVars, mode, visited, departed, vsig, dsig>>

\* Node.walkabout, lines 195-200: dispatch_departure, outside every handler
WalkaboutDepart ==
    /\ mode = "walkabout" /\ stack # <<>> /\ Top.pc = "depart"
    /\ IF Top.call_depart
       THEN \E sig \in MayRaise :
              /\ dsig' = [dsig EXCEPT ![Top.node] = sig]
              /\ departed' = Append(departed, Top.node)
              /\ stack' = Pop
              /\ ret' = IF sig = NoSignal THEN BoolStr(Top.stop) ELSE sig
       ELSE /\ stack' = Pop /\ ret' = BoolStr(Top.stop)
            /\ UNCHANGED <<departed, dsig>>
    /\ UNCHANGED <<treeVars, idVars, auxVars, mode, visited, vsig>>

NextWalk == WalkVisit \/ WalkChildren \/ WalkaboutVisit \/ WalkaboutChildren
            \/ WalkaboutDepart

SpecWalk == InitWalk /\ [][NextWalk]_vars

\* ------------------------------------------------- dispatch to the visitor
\* A NodeVisitor whose visit_ and depart_ methods, where it has them, do
\* nothing. The nodes of the tree are paragraphs and meta elements; the
\* visitor is the object after the nodes.
VisitKinds == {"paragraph", "meta"}

\* NodeVisitor.optional
optional == <<"meta">>

\* node.__class__.__name__
node_name(node) == objects[node].class

\* the visitor object
Visitor == objects[Len(objects)]

\* (a variant that does not look at strict_visitor)
unknown_lax(node) ==
    IF node_name(node) \notin Range(optional)
    THEN "NotImplementedError" ELSE NoSignal

\* NodeVisitor.unknown_visit and unknown_departure: what the call raises
unknown(node) ==
    IF settings.strict_visitor \/ node_name(node) \notin Range(optional)
    THEN "NotImplementedError" ELSE NoSignal

\* NodeVisitor.dispatch_visit: what the call raises
dispatch_visit(node) ==
    IF node_name(node) \in Visitor.visit THEN NoSignal ELSE unknown(node)

\* NodeVisitor.dispatch_departure: what the call raises
dispatch_departure(node) ==
    IF node_name(node) \in Visitor.depart THEN NoSignal ELSE unknown(node)

InitDispatch ==
    /\ \E n \in WalkNodes : \E pf \in TreeShapes(n) :
       \E kind \in [1..n -> VisitKinds] :
       \E visit \in SUBSET VisitKinds : \E depart \in SUBSET VisitKinds :
          /\ children = [i \in 1..n |-> SetToSeq({j \in 2..n : pf[j] = i})]
          /\ parent = [i \in 1..n |-> IF i = 1 THEN None ELSE pf[i]]
          /\ objects = [i \in 1..(n + 1) |->
                           IF i <= n THEN [class |-> kind[i]]
                           ELSE [class |-> "NodeVisitor", visit |-> visit,
                                 depart |-> depart]]
    /\ settings \in [strict_visitor : BOOLEAN]
    /\ mode \in {"walk", "walkabout"}
    /\ stack = <<Frame(WalkRoot)>>
    /\ ret = "none"
    /\ visited = <<>>
    /\ departed = <<>>
    /\ vsig = [i \in DOMAIN children |-> NoSignal]
    /\ dsig = [i \in DOMAIN children |-> NoSignal]
    /\ _document = [i \in DOMAIN children |-> None]
    /\ nops = 0
    /\ attributes = <<>>
    /\ ids = <<>> /\ nameids = <<>> /\ nametypes = <<>> /\ id_counter = <<>>
    /\ substitution_defs = <<>> /\ substitution_names = <<>>
    /\ messages = <<>> /\ last = <<>> /\ noted_explicit = {} /\ ncalls = 0
    /\ outcome = <<>> /\ edits = {} /\ lists = <<>>

\* Node.walk, lines 140-147, and Node.walkabout, lines 176-183:
\* dispatch_visit; NotImplementedError has no handler in any activation
DispatchVisit ==
    /\ stack # <<>> /\ Top.pc = "visit"
    /\ vsig' = [vsig EXCEPT ![Top.node] = dispatch_visit(Top.node)]
    /\ visited' = Append(visited, Top.node)
    /\ IF dispatch_visit(Top.node) # NoSignal
       THEN stack' = <<>> /\ ret' = dispatch_visit(Top.node)
       ELSE /\ stack' = SetTop([Top EXCEPT !.pc = "children",
                                   !.todo = children[Top.node]])
            /\ ret' = ret
    /\ UNCHANGED <<treeVars, idVars, auxVars, mode, departed, dsig>>

\* Node.walk, lines 149-157, and Node.walkabout, lines 184-194: the loop
\* over the snapshot of the children, none of which has stopped or raised
DispatchChildren ==
    /\ stack # <<>> /\ Top.pc = "children"
    /\ IF Top.todo # <<>>
       THEN /\ stack' = Append(SetTop([Top EXCEPT !.todo = Tail(@)]),
                               Frame(Head(Top.todo)))
            /\ ret' = "none"
       ELSE IF mode = "walk" THEN stack' = Pop /\ ret' = BoolStr(Top.stop)
       ELSE stack' = SetTop([Top EXCEPT !.pc = "depart"]) /\ ret' = "none"
    /\ UNCHANGED <<treeVars, idVars, auxVars, mode, visited, departed, vsig,
                   dsig>>

\* Node.walkabout, lines 195-200: dispatch_departure
DispatchDeparture ==
    /\ stack # <<>> /\ Top.pc = "depart"
    /\ dsig' = [dsig EXCEPT ![Top.node] = dispatch_departure(Top.node)]
    /\ departed' = Append(departed, Top.node)
    /\ IF dispatch_departure(Top.node) # NoSignal
       THEN stack' = <<>> /\ ret' = dispatch_departure(Top.node)
       ELSE stack' = Pop /\ ret' = BoolStr(Top.stop)
    /\ UNCHANGED <<treeVars, idVars, auxVars, mode, visited, vsig>>

NextDispatch == DispatchVisit \/ DispatchChildren \/ DispatchDeparture

SpecDispatch == InitDispatch /\ [][NextDispatch]_vars


\* ===================================================== Element child lists
\* The nodes of the tree specification: two document roots, an Element
\* and a Text node.
TreeDocuments == {1, 3}
TreeElements == {1, 2, 3}
TreeTexts == {24}
TreeNodes == TreeElements \cup TreeTexts

\* Text is a str subclass: two Text nodes are == when their strings are;
\* an Element is == only to itself
\* (in every specification that compares nodes the Text nodes are 11, 21,
\* 22, 23 and 24, and every other number is an Element)
text == [n \in {11, 21, 22, 23, 24} |-> IF n = 23 THEN "u" ELSE "t"]
NodeEq(a, b) == \/ a = b
                \/ a \in DOMAIN text /\ b \in DOMAIN text /\ text[a] = text[b]

\* the result of Node.document when the recursion does not end
Diverges == 0 - 1

\* Node.document: self._document or self.parent.document, None when the
\* chain ends at a node without parent; fuel counts the nested calls
RECURSIVE Resolve(_, _, _)
Resolve(st, n, fuel) ==
    IF fuel = 0 THEN Diverges
    ELSE IF st._document[n] # None THEN st._document[n]
    ELSE IF st.parent[n] = None THEN None
    ELSE Resolve(st, st.parent[n], fuel - 1)

document(st, n) == Resolve(st, n, Cardinality(DOMAIN st.parent) + 1)

\* the state an operation works on
Now == [children |-> children, parent |-> parent, _document |-> _document,
        err |-> ""]

Raise(st, e) == [st EXCEPT !.err = e]

\* (a variant that sets the parent link and leaves the document alone)
setup_child_parent_only(st, self, child) ==
    LET s1 == [st EXCEPT !.parent[child] = self]
        d == document(s1, self)
    IN IF d = Diverges THEN Raise(s1, "RecursionError") ELSE s1

\* Node.setup_child: child.parent = self, then, if self.document, the
\* child's document (source and line are not modelled)
setup_child(st, self, child) ==
    LET s1 == [st EXCEPT !.parent[child] = self]
        d == document(s1, self)
    IN IF d = Diverges THEN Raise(s1, "RecursionError")
       ELSE IF d # None THEN [s1 EXCEPT !._document[child] = d]
       ELSE s1

\* list operations of self.children
InsertAt(s, i, x) == SubSeq(s, 1, i) \o <<x>> \o SubSeq(s, i + 1, Len(s))
\* s[i:j] = items, with 0 <= i <= j <= len(s)
SetSliceOf(s, i, j, items) == SubSeq(s, 1, i) \o items \o SubSeq(s, j + 1, Len(s))
\* list.index(item): the first position whose element is == item, 0-based;
\* -1 stands for ValueError
ListIndex(s, item) ==
    IF \E k \in DOMAIN s : NodeEq(s[k], item)
    THEN (CHOOSE k \in DOMAIN s : /\ NodeEq(s[k], item)
                                  /\ \A l \in 1..(k - 1) : ~NodeEq(s[l], item)) - 1
    ELSE 0 - 1

Put(st, self, kids) == [st EXCEPT !.children[self] = kids]

\* Element.append
append(st, self, item) ==
    LET s1 == setup_child(st, self, item)
    IN IF s1.err # "" THEN s1
       ELSE Put(s1, self, Append(s1.children[self], item))

\* Element.extend: append the nodes one by one
RECURSIVE extend(_, _, _)
extend(st, self, items) ==
    IF items = <<>> \/ st.err # "" THEN st
    ELSE extend(append(st, self, Head(items)), self, Tail(items))

\* the loop "for node in item: self.setup_child(node)"
RECURSIVE setup_children(_, _, _)
setup_children(st, self, items) ==
    IF items = <<>> \/ st.err # "" THEN st
    ELSE setup_children(setup_child(st, self, Head(items)), self, Tail(items))

\* Element.__setitem__ with an int key (0-based)
setitem(st, self, key, item) ==
    LET s1 == setup_child(st, self, item)
    IN IF s1.err # "" THEN s1
       ELSE IF key >= Len(s1.children[self]) THEN Raise(s1, "IndexError")
       ELSE Put(s1, self, [s1.children[self] EXCEPT ![key + 1] = item])

\* Element.__setitem__ with a slice key start:stop
setslice(st, self, start, stop, items) ==
    LET s1 == setup_children(st, self, items)
    IN IF s1.err # "" THEN s1
       ELSE Put(s1, self, SetSliceOf(s1.children[self], start, stop, items))

\* Element.insert with a node
insert(st, self, index, item) ==
    LET s1 == setup_child(st, self, item)
    IN IF s1.err # "" THEN s1
       ELSE Put(s1, self, InsertAt(s1.children[self], index, item))

\* Element.replace with a node: setup_child(new); self[index] = new
replace(st, self, old, new) ==
    LET index == ListIndex(st.children[self], old)
    IN IF index < 0 THEN Raise(st, "ValueError")
       ELSE LET s1 == setup_child(st, self, new)
            IN IF s1.err # "" THEN s1 ELSE setitem(s1, self, index, new)

\* Element.replace with a list: self[index:index+1] = new
replace_list(st, self, old, new) ==
    LET index == ListIndex(st.children[self], old)
    IN IF index < 0 THEN Raise(st, "ValueError")
       ELSE setslice(st, self, index, index + 1, new)

\* lists of nodes a caller passes
ItemLists == UNION {[1..k -> TreeNodes] : k \in 0..MaxItems}

\* the operation is over (returned, or raised st.err): its effects
Done(st) ==
    /\ children' = st.children
    /\ parent' = st.parent
    /\ _document' = st._document
    /\ \A e \in DOMAIN st.children : Len(st.children[e]) <= MaxChildren
    /\ nops' = nops + 1

InitTree ==
    /\ children = [e \in TreeElements |-> <<>>]
    /\ parent = [n \in TreeNodes |-> None]
    \* document.__init__: self._document = self
    /\ _document = [n \in TreeNodes |-> IF n \in TreeDocuments THEN n ELSE None]
    /\ nops = 0
    /\ mode = "idle" /\ stack = <<>> /\ ret = "none"
    /\ visited = <<>> /\ departed = <<>>
    /\ vsig = <<>> /\ dsig = <<>>
    /\ NoRegistry
    /\ NoAux

\* an object that does not exist yet: in the state the constructor starts
\* from, and referred to by no node, neither as a child nor as a parent
\* (a failed insertion leaves the parent link set, line 638 before 639)
\* nor as a document
Pristine(self) ==
    /\ children[self] = <<>> /\ parent[self] = None /\ _document[self] = None
    /\ \A e \in TreeElements : self \notin Range(children[e])
    /\ \A n \in TreeNodes : parent[n] # self /\ _document[n] # self

\* Element.__init__(rawsource, *children) of a new Element:
\* self.children = []; self.extend(children). The children exist before
\* the new Element does.
ElementInit(self, items) ==
    /\ nops < MaxOps
    /\ Pristine(self)
    /\ self \notin Range(items)
    /\ Done(extend(Now, self, items))
    /\ UNCHANGED <<walkVars, idVars, auxVars>>

Append_(self, item) ==
    /\ nops < MaxOps
    /\ Done(append(Now, self, item))
    /\ UNCHANGED <<walkVars, idVars, auxVars>>

Extend(self, items) ==
    /\ nops < MaxOps
    /\ Done(extend(Now, self, items))
    /\ UNCHANGED <<walkVars, idVars, auxVars>>

\* Element.__iadd__: a node (isnode) is appended, a list extends
IAdd(self, isnode, other) ==
    /\ nops < MaxOps
    /\ IF isnode
       THEN Done(append(Now, self, other))
       ELSE Done(extend(Now, self, other))
    /\ UNCHANGED <<walkVars, idVars, auxVars>>

\* Element.insert: a node, or a list through self[index:index] = item
Insert(self, index, isnode, item) ==
    /\ nops < MaxOps
    /\ index \in 0..Len(children[self])
    /\ IF isnode
       THEN Done(insert(Now, self, index, item))
       ELSE Done(setslice(Now, self, index, index, item))
    /\ UNCHANGED <<walkVars, idVars, auxVars>>

\* Element.__setitem__: self[key] = node
SetItem(self, key, item) ==
    /\ nops < MaxOps
    /\ key \in 0..Len(children[self])
    /\ Done(setitem(Now, self, key, item))
    /\ UNCHANGED <<walkVars, idVars, auxVars>>

\* Element.__setitem__: self[start:stop] = nodes
SetSlice(self, start, stop, items) ==
    /\ nops < MaxOps
    /\ start \in 0..Len(children[self]) /\ stop \in start..Len(children[self])
    /\ Done(setslice(Now, self, start, stop, items))
    /\ UNCHANGED <<walkVars, idVars, auxVars>>

Replace(self, old, isnode, new) ==
    /\ nops < MaxOps
    /\ IF isnode
       THEN Done(replace(Now, self, old, new))
       ELSE Done(replace_list(Now, self, old, new))
    /\ UNCHANGED <<walkVars, idVars, auxVars>>

NextTree ==
    \/ \E self \in TreeElements \ TreeDocuments : \E items \in ItemLists :
          ElementInit(self, items)
    \/ \E self \in TreeElements :
          \/ \E item \in TreeNodes : Append_(self, item)
          \/ \E items \in ItemLists : Extend(self, items)
          \/ \E other \in TreeNodes : IAdd(self, TRUE, other)
          \/ \E other \in ItemLists : IAdd(self, FALSE, other)
          \/ \E i \in 0..MaxChildren : \E item \in TreeNodes :
                Insert(self, i, TRUE, item)
          \/ \E i \in 0..MaxChildren : \E item \in ItemLists :
                Insert(self, i, FALSE, item)
          \/ \E i \in 0..MaxChildren : \E item \in TreeNodes : SetItem(self, i, item)
          \/ \E i, j \in 0..MaxChildren : \E items \in ItemLists :
                SetSlice(self, i, j, items)
          \/ \E old \in TreeNodes : \E new \in TreeNodes :
                Replace(self, old, TRUE, new)
          \/ \E old \in TreeNodes : \E new \in ItemLists :
                Replace(self, old, FALSE, new)

SpecTree == InitTree /\ [][NextTree]_vars

\* ================================================ the id and name registries
\* A string is a sequence of characters.  A character is written as a
\* one-character string, a character outside ASCII as the name of its code
\* point ("U+00DF").
UpperCase == <<"A", "B", "C", "D", "E", "F", "G", "H", "I", "J", "K", "L", "M",
               "N", "O", "P", "Q", "R", "S", "T", "U", "V", "W", "X", "Y", "Z">>
LowerCase == <<"a", "b", "c", "d", "e", "f", "g", "h", "i", "j", "k", "l", "m",
               "n", "o", "p", "q", "r", "s", "t", "u", "v", "w", "x", "y", "z">>
Digits == <<"0", "1", "2", "3", "4", "5", "6", "7", "8", "9">>
Whitespace == {" ", "\t", "\n"}
Ascii == Range(UpperCase) \cup Range(LowerCase) \cup Range(Digits)
            \cup Whitespace \cup {"-", "_", ".", ":", "%", "+", "/"}

\* str.lower, for one character
lower(c) ==
    IF \E i \in DOMAIN UpperCase : UpperCase[i] = c
    THEN <<LowerCase[CHOOSE i \in DOMAIN UpperCase : UpperCase[i] = c]>>
    ELSE <<c>>

_non_id_translate_digraphs(c) ==
    CASE c = "U+00DF" -> <<"s", "z">>
      [] c = "U+00E6" -> <<"a", "e">>
      [] c = "U+0153" -> <<"o", "e">>
      [] c = "U+0238" -> <<"d", "b">>
      [] c = "U+0239" -> <<"q", "p">>
      [] OTHER -> <<c>>

_non_id_translate(c) ==
    CASE c = "U+00F8" -> <<"o">> [] c = "U+0111" -> <<"d">>
      [] c = "U+0127" -> <<"h">> [] c = "U+0131" -> <<"i">>
      [] c = "U+0142" -> <<"l">> [] c = "U+0167" -> <<"t">>
      [] c = "U+0180" -> <<"b">> [] c = "U+0183" -> <<"b">>
      [] c = "U+0188" -> <<"c">> [] c = "U+018C" -> <<"d">>
      [] c = "U+0192" -> <<"f">> [] c = "U+0199" -> <<"k">>
      [] c = "U+019A" -> <<"l">> [] c = "U+019E" -> <<"n">>
      [] c = "U+01A5" -> <<"p">> [] c = "U+01AB" -> <<"t">>
      [] c = "U+01AD" -> <<"t">> [] c = "U+01B4" -> <<"y">>
      [] c = "U+01B6" -> <<"z">> [] c = "U+01E5" -> <<"g">>
      [] c = "U+0225" -> <<"z">> [] c = "U+0234" -> <<"l">>
      [] c = "U+0235" -> <<"n">> [] c = "U+0236" -> <<"t">>
      [] c = "U+0237" -> <<"j">> [] c = "U+023C" -> <<"c">>
      [] c = "U+023F" -> <<"s">> [] c = "U+0240" -> <<"z">>
      [] c = "U+0247" -> <<"e">> [] c = "U+0249" -> <<"j">>
      [] c = "U+024B" -> <<"q">> [] c = "U+024D" -> <<"r">>
      [] c = "U+024F" -> <<"y">>
      [] OTHER -> <<c>>

\* unicodedata.normalize('NFKD', c).encode('ascii', 'ignore'): an ASCII
\* character stays, a composed letter keeps its ASCII base letter (the
\* combining mark is dropped), every other character is dropped
nfkd_ascii(c) ==
    CASE c \in Ascii -> <<c>>
      [] c = "U+00E9" -> <<"e">>
      [] c = "U+00FC" -> <<"u">>
      [] c = "U+FB01" -> <<"f", "i">>
      [] c = "U+2102" -> <<"C">>
      [] OTHER -> <<>>

\* the translation tables make_id applies in turn
CharMap(table, c) ==
    CASE table = "lower" -> lower(c)
      [] table = "_non_id_translate_digraphs" -> _non_id_translate_digraphs(c)
      [] table = "_non_id_translate" -> _non_id_translate(c)
      [] table = "nfkd_ascii" -> nfkd_ascii(c)

\* str.translate: the concatenation of what the table gives for the
\* characters of s
RECURSIVE Translate(_, _)
Translate(table, s) ==
    IF s = <<>> THEN <<>>
    ELSE CharMap(table, Head(s)) \o Translate(table, Tail(s))

\* str.split() without argument: the maximal runs without whitespace
RECURSIVE split(_, _, _)
split(s, word, words) ==
    IF s = <<>>
    THEN IF word = <<>> THEN words ELSE Append(words, word)
    ELSE IF Head(s) \in Whitespace
         THEN split(Tail(s), <<>>,
                    IF word = <<>> THEN words ELSE Append(words, word))
         ELSE split(Tail(s), Append(word, Head(s)), words)

\* sep.join(words)
RECURSIVE join(_, _)
join(sep, words) ==
    IF words = <<>> THEN <<>>
    ELSE IF Len(words) = 1 THEN words[1]
    ELSE words[1] \o sep \o join(sep, Tail(words))

\* ' '.join(name.split())
whitespace_normalize_name(name) == join(<<" ">>, split(name, <<>>, <<>>))

\* fully_normalize_name: ' '.join(name.lower().split())
fully_normalize_name(name) ==
    join(<<" ">>, split(Translate("lower", name), <<>>, <<>>))

\* the character classes of _non_id_chars and _non_id_at_ends
InClass(class, c) ==
    CASE class = "[^a-z0-9]" -> c \notin Range(LowerCase) \cup Range(Digits)
      [] class = "[-0-9]" -> c = "-" \/ c \in Range(Digits)
      [] class = "-" -> c = "-"

\* s without its longest prefix of characters of the class
RECURSIVE DropWhile(_, _)
DropWhile(class, s) ==
    IF s # <<>> /\ InClass(class, Head(s)) THEN DropWhile(class, Tail(s))
    ELSE s

Reverse(s) == [i \in 1..Len(s) |-> s[Len(s) + 1 - i]]

\* _non_id_chars.sub('-', s): every maximal run of characters other than
\* a-z and 0-9 becomes one hyphen
RECURSIVE _non_id_chars(_)
_non_id_chars(s) ==
    IF s = <<>> THEN <<>>
    ELSE IF InClass("[^a-z0-9]", Head(s))
         THEN <<"-">> \o _non_id_chars(DropWhile("[^a-z0-9]", Tail(s)))
         ELSE <<Head(s)>> \o _non_id_chars(Tail(s))

\* (a variant with the first alternative only)
_non_id_at_start(s) == DropWhile("[-0-9]", s)

\* _non_id_at_ends.sub('', s): '^[-0-9]+' takes the hyphens and digits at
\* the start, '-+$' the hyphens at the end of what is left
_non_id_at_ends(s) ==
    Reverse(DropWhile("-", Reverse(DropWhile("[-0-9]", s))))

make_id(string) ==
    LET lowered == Translate("lower", string)
        digraphs == Translate("_non_id_translate_digraphs", lowered)
        singles == Translate("_non_id_translate", digraphs)
        ascii == Translate("nfkd_ascii", singles)
        spaced == join(<<" ">>, split(ascii, <<>>, <<>>))
    IN  _non_id_at_ends(_non_id_chars(spaced))

\* '%d' % n, for n >= 0
RECURSIVE str(_)
str(n) == IF n < 10 THEN <<Digits[n + 1]>>
          ELSE str(n \div 10) \o <<Digits[(n % 10) + 1]>>

\* s.endswith(c), for one character c
endswith(s, c) == s # <<>> /\ s[Len(s)] = c

\* d[k] = v on a dict
SetKey(d, k, v) == [x \in DOMAIN d \cup {k} |-> IF x = k THEN v ELSE d[x]]
\* a setdefault that stores v also when the key is present
setdefault_overwrite(d, k, v) == SetKey(d, k, v)
\* dict.setdefault(k, v)
setdefault(d, k, v) == IF k \in DOMAIN d THEN d ELSE SetKey(d, k, v)
\* Counter.__getitem__: a missing key counts 0
Count0(d, k) == IF k \in DOMAIN d THEN d[k] ELSE 0

\* ------------------------------------------------------------ registration
\* the nodes that are registered, and the node that collects the messages
IdNodes == {1, 2, 3}
MsgNodes == {4}

\* Element.tagname of the nodes that are registered
tagname == <<"t", "a", "r", "g", "e", "t">>

\* the ids, names and reference URIs the nodes are constructed with
IdX == <<"x">>
IdY == <<"y">>
NameA == <<"a">>
NameCapA == <<"A">>
RefUriU == "u"
RefUriV == "v"
IdPrefixes == {<<>>, <<"p">>}
AutoIdPrefixes == {<<"%">>, <<"i", "d">>}
SuggestedPrefixes == {<<>>, <<"s">>}

\* Element.__init__: the list attributes, and refuri if it was passed
Attrs(i, n) == [ids |-> i, names |-> n, dupnames |-> <<>>]
AttrsUri(i, n, u) == [ids |-> i, names |-> n, dupnames |-> <<>>, refuri |-> u]

\* the nodes a run registers are built like one of these: without ids
\* (unnamed, named, named twice, external), or with ids set by the caller
NewAttributes ==
    << Attrs(<<>>, <<>>),
       Attrs(<<>>, <<NameA>>),
       Attrs(<<>>, <<NameCapA, NameA>>),
       AttrsUri(<<>>, <<NameA>>, RefUriU),
       AttrsUri(<<>>, <<NameA>>, RefUriV),
       Attrs(<<IdX>>, <<NameA>>),
       Attrs(<<IdX, IdY>>, <<>>) >>

\* Element.__contains__
HasAttr(st, node, key) == key \in DOMAIN st.attributes[node]

\* nameids[name] is None / is an id
NoId == <<>>
SomeId(id) == <<id>>

\* the registry and the nodes as a call finds them; id is the value set_id
\* returns, err the exception that ended the call
Registry ==
    [attributes |-> attributes, ids |-> ids, nameids |-> nameids,
     nametypes |-> nametypes, id_counter |-> id_counter,
     substitution_defs |-> substitution_defs,
     substitution_names |-> substitution_names,
     messages |-> <<>>, id |-> <<>>, err |-> "none"]

\* the reporter returns a system_message of the level with the text about
\* the id or name; `msgnode += msg` makes msgnode its parent
system_message(st, level, message, about, msgnode) ==
    IF st.err # "none" THEN st
    ELSE [st EXCEPT
             !.messages = Append(@, [level |-> level, text |-> message,
                                     about |-> about, parent |-> msgnode])]

\* list.remove(x): the list without the first x
RECURSIVE ListRemove(_, _)
ListRemove(s, x) ==
    IF Head(s) = x THEN Tail(s) ELSE <<Head(s)>> \o ListRemove(Tail(s), x)

\* dupname(node, name), lines 2839-2844; s1 is the state after line 2840
dupname_remove(s1, node, name) ==
    IF name \in Range(s1.attributes[node].names)
    THEN [s1 EXCEPT !.attributes[node].names = ListRemove(@, name)]
    ELSE [s1 EXCEPT !.err = "ValueError"]

dupname(st, node, name) ==
    IF st.err # "none" THEN st
    ELSE dupname_remove(
             [st EXCEPT !.attributes[node].dupnames = Append(@, name)],
             node, name)

\* set_id, lines 1697-1700; s1 is the state after line 1696
duplicate_id(s1, node, msgnode, id) ==
    IF s1.ids[id] # node
    THEN system_message(s1, 4, "Duplicate ID", id, msgnode)
    ELSE s1

\* set_id, lines 1695-1700: the loop over the ids the node carries
RECURSIVE register_ids(_, _, _, _)
register_ids(st, node, msgnode, todo) ==
    IF todo = <<>> THEN st
    ELSE register_ids(
             duplicate_id([st EXCEPT !.ids = setdefault(@, Head(todo), node),
                                     !.id = Head(todo)],
                          node, msgnode, Head(todo)),
             node, msgnode, Tail(todo))

\* s[1:]
Slice1(s) == IF s = <<>> THEN s ELSE Tail(s)

\* set_id, lines 1708-1712
base_id_of(name) ==
    IF settings.id_prefix # <<>> THEN Slice1(make_id(<<"x">> \o name))
    ELSE make_id(name)

\* (a variant whose break does not look the id up in the id map)
name_id_any(st, base_id) ==
    [base_id |-> base_id,
     id |-> settings.id_prefix \o base_id,
     found |-> base_id # <<>>]

\* set_id, lines 1714-1715: the id of a name and the test of the break
name_id(st, base_id) ==
    [base_id |-> base_id,
     id |-> settings.id_prefix \o base_id,
     found |-> /\ base_id # <<>>
               /\ (settings.id_prefix \o base_id) \notin DOMAIN st.ids]

\* set_id, lines 1707-1716: the loop over the names; found is the break
RECURSIVE name_loop(_, _, _)
name_next(st, names, now) ==
    IF now.found THEN now ELSE name_loop(st, names, now)

name_loop(st, names, cur) ==
    IF names = <<>> THEN cur
    ELSE name_next(st, Tail(names), name_id(st, base_id_of(Head(names))))

\* set_id, lines 1731-1732; s1 is the state after line 1729
RECURSIVE count_up(_, _)
count_try(s1, prefix, id) ==
    IF id \notin DOMAIN s1.ids THEN [s1 EXCEPT !.id = id]
    ELSE count_up(s1, prefix)

\* set_id, lines 1728-1732: count up until the id is free
count_step(st, prefix, n) ==
    count_try([st EXCEPT !.id_counter = SetKey(@, prefix, n)], prefix,
              prefix \o str(n))

count_up(st, prefix) == count_step(st, prefix, Count0(st.id_counter, prefix) + 1)

\* set_id, lines 1723-1727
auto_prefix(prefix, suggested_prefix) ==
    IF endswith(prefix, "%")
    THEN SubSeq(prefix, 1, Len(prefix) - 1)
         \o (IF suggested_prefix # <<>> THEN suggested_prefix
             ELSE make_id(tagname))
         \o <<"-">>
    ELSE prefix

\* (a variant that never counts on from a name-derived id)
counter_prefix_auto(loop, suggested_prefix) ==
    auto_prefix(settings.id_prefix \o settings.auto_id_prefix,
                suggested_prefix)

\* set_id, lines 1718-1727: the prefix of a counted id
counter_prefix(loop, suggested_prefix) ==
    IF loop.base_id # <<>> /\ endswith(settings.auto_id_prefix, "%")
    THEN loop.id \o <<"-">>
    ELSE auto_prefix(settings.id_prefix \o settings.auto_id_prefix,
                     suggested_prefix)

\* set_id, lines 1733-1734
append_id(s1, node) ==
    [s1 EXCEPT !.attributes[node].ids = Append(@, s1.id),
               !.ids = SetKey(@, s1.id, node)]

\* set_id, lines 1716-1734, after the loop over the names
choose_id(st, node, suggested_prefix, loop) ==
    append_id(IF loop.found THEN [st EXCEPT !.id = loop.id]
              ELSE count_up(st, counter_prefix(loop, suggested_prefix)),
              node)

\* set_id, lines 1703-1735: generate an id and set it
generate_id(st, node, suggested_prefix) ==
    choose_id(st, node, suggested_prefix,
              name_loop(st, st.attributes[node].names,
                        [base_id |-> <<>>, id |-> <<>>, found |-> FALSE]))

\* a set_id that returns the first of the ids the node carries
set_id_first(st, node, msgnode, suggested_prefix) ==
    IF st.attributes[node].ids # <<>>
    THEN [register_ids(st, node, msgnode, st.attributes[node].ids)
             EXCEPT !.id = st.attributes[node].ids[1]]
    ELSE generate_id(st, node, suggested_prefix)

\* document.set_id, lines 1692-1735
set_id(st, node, msgnode, suggested_prefix) ==
    IF st.attributes[node].ids # <<>>
    THEN register_ids(st, node, msgnode, st.attributes[node].ids)
    ELSE generate_id(st, node, suggested_prefix)

\* self.nameids[name] = v
set_nameid(st, name, v) ==
    IF st.err # "none" THEN st
    ELSE [st EXCEPT !.nameids = SetKey(@, name, v)]

\* set_duplicate_name_id, lines 1784-1792: the level of the message about
\* a duplicate explicit name
explicit_level(st, node, old_id) ==
    IF /\ old_id # NoId
       /\ HasAttr(st, node, "refuri")
       /\ st.attributes[st.ids[old_id[1]]].names # <<>>
       /\ HasAttr(st, st.ids[old_id[1]], "refuri")
       /\ st.attributes[st.ids[old_id[1]]].refuri = st.attributes[node].refuri
    THEN 1 ELSE 2

\* set_duplicate_name_id, lines 1796-1801
explicit_message(s1, node, id, name, msgnode, level) ==
    dupname(system_message(s1, level, "Duplicate explicit target name",
                           name, msgnode),
            node, name)

\* (a variant that invalidates the old target and leaves the name resolved
\* to its id)
explicit_explicit_keep(s0, node, id, name, msgnode, old_id, level) ==
    explicit_message(
        IF old_id # NoId /\ level > 1
        THEN dupname(s0, s0.ids[old_id[1]], name)
        ELSE s0,
        node, id, name, msgnode, level)

\* set_duplicate_name_id, lines 1784-1801: both targets are explicit
explicit_explicit(s0, node, id, name, msgnode, old_id, level) ==
    explicit_message(
        IF old_id # NoId /\ level > 1
        THEN set_nameid(dupname(s0, s0.ids[old_id[1]], name), name, NoId)
        ELSE s0,
        node, id, name, msgnode, level)

\* set_duplicate_name_id, lines 1803-1806; s1 is the state after line 1803
explicit_dupname_old(s1, name, old_id) ==
    IF old_id # NoId THEN dupname(s1, s1.ids[old_id[1]], name) ELSE s1

\* set_duplicate_name_id, lines 1808-1812: the new target is implicit
implicit_dupnames(s0, node, name, old_id, old_explicit) ==
    dupname(IF old_id # NoId /\ ~old_explicit
            THEN dupname(set_nameid(s0, name, NoId), s0.ids[old_id[1]], name)
            ELSE s0,
            node, name)

\* set_duplicate_name_id, lines 1813-1818
implicit_message(s2, name, msgnode, explicit, old_id, old_explicit) ==
    IF ~explicit \/ (~old_explicit /\ old_id # NoId)
    THEN system_message(s2, 1, "Duplicate implicit target name", name,
                        msgnode)
    ELSE s2

\* set_duplicate_name_id, lines 1782-1818; s0 is the state after line 1781
duplicate_name(s0, node, id, name, msgnode, explicit, old_id, old_explicit) ==
    implicit_message(
        IF explicit
        THEN IF old_explicit
             THEN explicit_explicit(s0, node, id, name, msgnode, old_id,
                                    explicit_level(s0, node, old_id))
             ELSE explicit_dupname_old(set_nameid(s0, name, SomeId(id)),
                                       name, old_id)
        ELSE implicit_dupnames(s0, node, name, old_id, old_explicit),
        name, msgnode, explicit, old_id, old_explicit)

\* (a variant that takes the type of the new target for the name)
set_duplicate_name_id_type(st, node, id, name, msgnode, explicit) ==
    duplicate_name(
        [st EXCEPT !.nametypes[name] = explicit],
        node, id, name, msgnode, explicit, st.nameids[name],
        st.nametypes[name])

\* document.set_duplicate_name_id, lines 1778-1818
set_duplicate_name_id(st, node, id, name, msgnode, explicit) ==
    duplicate_name(
        [st EXCEPT !.nametypes[name] = st.nametypes[name] \/ explicit],
        node, id, name, msgnode, explicit, st.nameids[name],
        st.nametypes[name])

\* set_name_id_map, lines 1771-1776: one name
name_id_step(st, node, id, msgnode, explicit, name) ==
    IF name \in DOMAIN st.nameids
    THEN set_duplicate_name_id(st, node, id, name, msgnode, explicit)
    ELSE [st EXCEPT !.nameids = SetKey(@, name, SomeId(id)),
                    !.nametypes = SetKey(@, name, explicit)]

\* set_name_id_map, lines 1770-1776: the loop over tuple(node['names'])
RECURSIVE name_id_loop(_, _, _, _, _, _)
name_id_loop(st, node, id, msgnode, explicit, todo) ==
    IF todo = <<>> \/ st.err # "none" THEN st
    ELSE name_id_loop(
             name_id_step(st, node, id, msgnode, explicit, Head(todo)),
             node, id, msgnode, explicit, Tail(todo))

\* document.set_name_id_map, lines 1737-1776
set_name_id_map(st, node, id, msgnode, explicit) ==
    name_id_loop(st, node, id, msgnode, explicit, st.attributes[node].names)

\* note_implicit_target / note_explicit_target, lines 1826 and 1830; s1 is
\* the state after set_id
note_names(s1, target, msgnode, explicit) ==
    set_name_id_map(s1, target, s1.id, msgnode, explicit)

\* document.note_implicit_target, lines 1824-1826
note_implicit_target(st, target, msgnode) ==
    note_names(set_id(st, target, msgnode, <<>>), target, msgnode, FALSE)

\* document.note_explicit_target, lines 1828-1830
note_explicit_target(st, target, msgnode) ==
    note_names(set_id(st, target, msgnode, <<>>), target, msgnode, TRUE)

\* document.note_anonymous_target, lines 1843-1844
note_anonymous_target(st, target) == set_id(st, target, None, <<>>)

\* document.note_substitution_def, lines 1879-1892
note_substitution_def(st, subdef, def_name, msgnode) ==
    LET name == whitespace_normalize_name(def_name)
        s1 == IF name \in DOMAIN st.substitution_defs
              THEN dupname(
                       system_message(
                           st, 3, "Duplicate substitution definition name",
                           name, msgnode),
                       st.substitution_defs[name], name)
              ELSE st
    IN IF s1.err # "none" THEN s1
       ELSE [s1 EXCEPT
                !.substitution_defs = SetKey(@, name, subdef),
                !.substitution_names =
                    SetKey(@, fully_normalize_name(name), name)]

\* the call is over (returned, or raised st.err): its effects
Registered(st, method, node) ==
    /\ attributes' = st.attributes
    /\ ids' = st.ids
    /\ nameids' = st.nameids
    /\ nametypes' = st.nametypes
    /\ id_counter' = st.id_counter
    /\ substitution_defs' = st.substitution_defs
    /\ substitution_names' = st.substitution_names
    /\ messages' = st.messages
    /\ last' = [node |-> node, ids |-> attributes[node].ids, id |-> st.id,
                err |-> st.err]
    /\ noted_explicit' =
          IF method = "note_explicit_target"
          THEN noted_explicit
                  \cup {<<node, name>> : name \in Range(attributes[node].names)}
          ELSE noted_explicit
    /\ ncalls' = ncalls + 1
    /\ UNCHANGED <<settings, treeVars, walkVars, auxVars>>

\* a new document (document.__init__, lines 1583-1673) and nodes that are
\* not registered yet
InitIds ==
    \* the registries know a node by its identity only: of the runs that
    \* differ by a renumbering of the nodes, one is taken
    /\ \E k \in [IdNodes -> DOMAIN NewAttributes] :
          /\ \A i, j \in IdNodes : i < j => k[i] <= k[j]
          /\ attributes = [n \in IdNodes |-> NewAttributes[k[n]]]
    /\ settings \in [id_prefix : IdPrefixes, auto_id_prefix : AutoIdPrefixes]
    /\ ids = <<>> /\ nameids = <<>> /\ nametypes = <<>> /\ id_counter = <<>>
    /\ substitution_defs = <<>> /\ substitution_names = <<>>
    /\ messages = <<>> /\ last = <<>> /\ noted_explicit = {} /\ ncalls = 0
    /\ children = <<>> /\ parent = <<>> /\ _document = <<>> /\ nops = 0
    /\ mode = "idle" /\ stack = <<>> /\ ret = "none"
    /\ visited = <<>> /\ departed = <<>>
    /\ vsig = <<>> /\ dsig = <<>>
    /\ NoAux

SetId(node, msgnode, suggested_prefix) ==
    /\ ncalls < MaxCalls
    /\ Registered(set_id(Registry, node, msgnode, suggested_prefix),
                  "set_id", node)

NoteImplicitTarget(target, msgnode) ==
    /\ ncalls < MaxCalls
    /\ Registered(note_implicit_target(Registry, target, msgnode),
                  "note_implicit_target", target)

NoteExplicitTarget(target, msgnode) ==
    /\ ncalls < MaxCalls
    /\ Registered(note_explicit_target(Registry, target, msgnode),
                  "note_explicit_target", target)

NoteAnonymousTarget(target) ==
    /\ ncalls < MaxCalls
    /\ Registered(note_anonymous_target(Registry, target),
                  "note_anonymous_target", target)

NextIds ==
    \/ \E node \in IdNodes : \E msgnode \in {None} \cup MsgNodes :
          \E suggested_prefix \in SuggestedPrefixes :
             SetId(node, msgnode, suggested_prefix)
    \/ \E target \in IdNodes : \E msgnode \in {None} \cup MsgNodes :
          NoteImplicitTarget(target, msgnode)
    \/ \E target \in IdNodes : \E msgnode \in {None} \cup MsgNodes :
          NoteExplicitTarget(target, msgnode)
    \/ \E target \in IdNodes : NoteAnonymousTarget(target)

SpecIds == InitIds /\ [][NextIds]_vars

\* the sequences of note_implicit_target / note_explicit_target calls
NextNotes ==
    \/ \E target \in IdNodes : \E msgnode \in {None} \cup MsgNodes :
          NoteImplicitTarget(target, msgnode)
    \/ \E target \in IdNodes : \E msgnode \in {None} \cup MsgNodes :
          NoteExplicitTarget(target, msgnode)

SpecNotes == InitIds /\ [][NextNotes]_vars

\* set_id on a document whose nodes are built without ids: unnamed, named,
\* named twice, and with a name that has no id of its own ("1" is no
\* identifier unless an id_prefix stands before it)
Name1 == <<"1">>
SetIdAttributes ==
    << Attrs(<<>>, <<>>),
       Attrs(<<>>, <<NameA>>),
       Attrs(<<>>, <<NameCapA, NameA>>),
       Attrs(<<>>, <<Name1>>),
       Attrs(<<>>, <<NameA, Name1>>),
       Attrs(<<>>, <<Name1, NameA>>) >>

InitSetIds ==
    /\ \E k \in [IdNodes -> DOMAIN SetIdAttributes] :
          /\ \A i, j \in IdNodes : i < j => k[i] <= k[j]
          /\ attributes = [n \in IdNodes |-> SetIdAttributes[k[n]]]
    /\ settings \in [id_prefix : IdPrefixes, auto_id_prefix : AutoIdPrefixes]
    /\ ids = <<>> /\ nameids = <<>> /\ nametypes = <<>> /\ id_counter = <<>>
    /\ substitution_defs = <<>> /\ substitution_names = <<>>
    /\ messages = <<>> /\ last = <<>> /\ noted_explicit = {} /\ ncalls = 0
    /\ children = <<>> /\ parent = <<>> /\ _document = <<>> /\ nops = 0
    /\ mode = "idle" /\ stack = <<>> /\ ret = "none"
    /\ visited = <<>> /\ departed = <<>>
    /\ vsig = <<>> /\ dsig = <<>>
    /\ NoAux

NextSetIds ==
    \E node \in IdNodes : \E suggested_prefix \in SuggestedPrefixes :
        SetId(node, None, suggested_prefix)

SpecSetIds == InitSetIds /\ [][NextSetIds]_vars

\* targets that are noted once each: the nodes are built without ids,
\* with one name, with two names, and external. The last one has one name
\* twice: the docstring calls names a list of unique identifiers (lines
\* 427-428), but Element.__init__ copies any list it is given (value[:],
\* line 541) and set_id / set_name_id_map accept it.
TargetAttributes ==
    << Attrs(<<>>, <<NameA>>),
       Attrs(<<>>, <<NameCapA, NameA>>),
       AttrsUri(<<>>, <<NameA>>, RefUriU),
       AttrsUri(<<>>, <<NameA>>, RefUriV),
       AttrsUri(<<>>, <<NameA, NameA>>, RefUriU) >>

InitTargets ==
    /\ \E k \in [IdNodes -> DOMAIN TargetAttributes] :
          /\ \A i, j \in IdNodes : i < j => k[i] <= k[j]
          /\ attributes = [n \in IdNodes |-> TargetAttributes[k[n]]]
    /\ settings \in [id_prefix : IdPrefixes, auto_id_prefix : AutoIdPrefixes]
    /\ ids = <<>> /\ nameids = <<>> /\ nametypes = <<>> /\ id_counter = <<>>
    /\ substitution_defs = <<>> /\ substitution_names = <<>>
    /\ messages = <<>> /\ last = <<>> /\ noted_explicit = {} /\ ncalls = 0
    /\ children = <<>> /\ parent = <<>> /\ _document = <<>> /\ nops = 0
    /\ mode = "idle" /\ stack = <<>> /\ ret = "none"
    /\ visited = <<>> /\ departed = <<>>
    /\ vsig = <<>> /\ dsig = <<>>
    /\ NoAux

\* a target that has no id yet is noted
NextTargets ==
    \/ \E target \in IdNodes : \E msgnode \in {None} \cup MsgNodes :
          attributes[target].ids = <<>> /\ NoteImplicitTarget(target, msgnode)
    \/ \E target \in IdNodes : \E msgnode \in {None} \cup MsgNodes :
          attributes[target].ids = <<>> /\ NoteExplicitTarget(target, msgnode)

SpecTargets == InitTargets /\ [][NextTargets]_vars

\* substitution definitions: the nodes are built with the name of the
\* definition, in lower or in upper case, and are noted as definitions of
\* one of the two names, and as targets
DefNames == {NameA, NameCapA}
SubstitutionAttributes ==
    << Attrs(<<>>, <<NameA>>), Attrs(<<>>, <<NameCapA>>) >>

InitSubstitutions ==
    /\ \E k \in [IdNodes -> DOMAIN SubstitutionAttributes] :
          /\ \A i, j \in IdNodes : i < j => k[i] <= k[j]
          /\ attributes = [n \in IdNodes |-> SubstitutionAttributes[k[n]]]
    /\ settings \in [id_prefix : IdPrefixes, auto_id_prefix : AutoIdPrefixes]
    /\ ids = <<>> /\ nameids = <<>> /\ nametypes = <<>> /\ id_counter = <<>>
    /\ substitution_defs = <<>> /\ substitution_names = <<>>
    /\ messages = <<>> /\ last = <<>> /\ noted_explicit = {} /\ ncalls = 0
    /\ children = <<>> /\ parent = <<>> /\ _document = <<>> /\ nops = 0
    /\ mode = "idle" /\ stack = <<>> /\ ret = "none"
    /\ visited = <<>> /\ departed = <<>>
    /\ vsig = <<>> /\ dsig = <<>>
    /\ NoAux

NoteSubstitutionDef(subdef, def_name, msgnode) ==
    /\ ncalls < MaxCalls
    /\ Registered(note_substitution_def(Registry, subdef, def_name, msgnode),
                  "note_substitution_def", subdef)

NextSubstitutions ==
    \/ \E subdef \in IdNodes : \E def_name \in DefNames :
          \E msgnode \in {None} \cup MsgNodes :
             NoteSubstitutionDef(subdef, def_name, msgnode)
    \/ \E target \in IdNodes : \E msgnode \in {None} \cup MsgNodes :
          NoteExplicitTarget(target, msgnode)
    \/ \E target \in IdNodes : \E msgnode \in {None} \cup MsgNodes :
          NoteImplicitTarget(target, msgnode)

SpecSubstitutions == InitSubstitutions /\ [][NextSubstitutions]_vars

\* ============================================================= validation
\* The nodes of the validation specifications, by class: the containers
\* first, then the nodes that are put into them.
VNodes == 1..26
Class(n) ==
    << "document", "section", "sidebar", "bullet_list", "title", "subtitle",
       "paragraph", "transition", "list_item", "list_item", "Text",
       "transition", "authors", "author", "author", "organization",
       "address", "contact", "meta", "rubric", "Text", "Text", "Text", "Text",
       "decoration", "docinfo" >>[n]
VElements == {n \in VNodes : Class(n) # "Text"}
VContainers == {1, 2, 3, 4}

\* the classes a node of class cls is an instance of
Mro(cls) ==
    CASE cls = "document" -> {"document", "Root", "Element", "Node"}
      [] cls = "section" -> {"section", "Structural", "Element", "Node"}
      [] cls = "sidebar" -> {"sidebar", "Structural", "Element", "Node"}
      [] cls = "bullet_list" ->
             {"bullet_list", "Sequential", "Body", "Element", "Node"}
      [] cls = "title" ->
             {"title", "Titular", "PreBibliographic", "SubStructural",
              "TextElement", "Element", "Node"}
      [] cls = "subtitle" ->
             {"subtitle", "Titular", "PreBibliographic", "SubStructural",
              "TextElement", "Element", "Node"}
      [] cls = "paragraph" ->
             {"paragraph", "General", "Body", "TextElement", "Element",
              "Node"}
      [] cls = "transition" ->
             {"transition", "SubStructural", "Element", "Node"}
      [] cls = "list_item" -> {"list_item", "Part", "Element", "Node"}
      [] cls = "Text" -> {"Text", "Node", "str"}
      [] cls = "authors" -> {"authors", "Bibliographic", "Element", "Node"}
      [] cls = "address" ->
             {"address", "Bibliographic", "FixedTextElement", "TextElement",
              "Element", "Node"}
      [] cls \in {"author", "organization", "contact"} ->
             {cls, "Bibliographic", "TextElement", "Element", "Node"}
      [] cls \in {"meta", "decoration"} ->
             {cls, "PreBibliographic", "SubStructural", "Element", "Node"}
      [] cls = "rubric" ->
             {"rubric", "Titular", "General", "Body", "TextElement",
              "Element", "Node"}
      [] cls = "docinfo" -> {"docinfo", "SubStructural", "Element", "Node"}

\* isinstance(child, category): a category is a tuple of classes (a single
\* class is a tuple of one); None is an instance of none of them
isinstance(child, category) ==
    /\ child # None
    /\ \E i \in DOMAIN category : category[i] \in Mro(Class(child))

\* the content_model of a class: (category, quantifier) pairs
content_model(cls) ==
    CASE cls = "document" ->
             << << <<"title">>, "?" >>,
                << <<"subtitle">>, "?" >>,
                << <<"meta">>, "*" >>,
                << <<"decoration">>, "?" >>,
                << <<"docinfo">>, "?" >>,
                << <<"transition">>, "?" >>,
                << <<"Body", "topic", "sidebar", "transition">>, "*" >>,
                << <<"section", "transition">>, "*" >> >>
      [] cls = "section" ->
             << << <<"title">>, "." >>,
                << <<"subtitle">>, "?" >>,
                << <<"Body", "topic", "sidebar", "transition">>, "*" >>,
                << <<"section", "transition">>, "*" >> >>
      [] cls = "sidebar" ->
             << << <<"title">>, "?" >>,
                << <<"subtitle">>, "?" >>,
                << <<"topic", "Body">>, "+" >> >>
      [] cls = "bullet_list" -> << << <<"list_item">>, "+" >> >>
      [] cls = "list_item" -> << << <<"Body">>, "*" >> >>
      [] cls = "authors" ->
             << << <<"author">>, "+" >>,
                << <<"organization">>, "?" >>,
                << <<"address">>, "?" >>,
                << <<"contact">>, "?" >> >>
      [] cls = "docinfo" -> << << <<"Bibliographic">>, "+" >> >>
      [] cls = "decoration" ->
             << << <<"header">>, "?" >>, << <<"footer">>, "?" >> >>
      [] cls \in {"title", "subtitle", "paragraph", "author", "organization",
                  "address", "contact", "rubric"} ->
             << << <<"Text", "Inline">>, "*" >> >>
      [] OTHER -> <<>>

\* the valid_attributes of a class
valid_attributes(cls) ==
    {"ids", "classes", "names", "dupnames", "source"}
    \cup (CASE cls = "document" -> {"title"}
            [] cls = "bullet_list" -> {"bullet"}
            [] cls = "title" -> {"auto", "refid"}
            [] cls = "address" -> {"xml:space"}
            [] cls = "meta" -> {"content", "dir", "http-equiv", "lang",
                                "media", "name", "scheme"}
            [] OTHER -> {})

\* one line of the message of a ValidationError: its text, the category
\* or attribute it names, and the class of the child it names
Message(message, type, found) ==
    [text |-> message, type |-> type, found |-> found]

\* the state a validation call works on: the attributes (validation
\* normalizes them), the exception raised with the lines of its message
\* and its problematic_element, and the value validate_content returns
Validating ==
    [attributes |-> attributes, err |-> "none", messages |-> <<>>,
     problematic |-> None, leftover |-> <<>>]

ValidationError(st, msgs, problematic_element) ==
    [st EXCEPT !.err = "ValidationError", !.messages = msgs,
               !.problematic = problematic_element]

\* validate_identifier raises ValueError
validate_identifier_raises(value) == value # make_id(value)

\* validate_identifier_list(value) of a list raises ValueError
validate_identifier_list_raises(value) ==
    \E i \in DOMAIN value : validate_identifier_raises(value[i])

\* validate_refname_list(value) of a list
validate_refname_list(value) ==
    [i \in DOMAIN value |-> whitespace_normalize_name(value[i])]

\* the string 'preserve'
Preserve == <<"p", "r", "e", "s", "e", "r", "v", "e">>

\* the attributes of an element right after Element(): the list
\* attributes, and xml:space where FixedTextElement.__init__ sets it
Built(n) ==
    IF "FixedTextElement" \in Mro(Class(n))
    THEN Attrs(<<>>, <<>>) @@ ("xml:space" :> Preserve)
    ELSE Attrs(<<>>, <<>>)

\* ATTRIBUTE_VALIDATORS[key](value) raises ValueError; the values are
\* lists (ids, names, dupnames) and strings
ValidatorRaises(key, value) ==
    \/ /\ key \in {"ids", "classes", "backrefs"}
       /\ validate_identifier_list_raises(value)
    \/ /\ key = "xml:space"
       /\ value \notin {<<"d", "e", "f", "a", "u", "l", "t">>, Preserve}

\* ATTRIBUTE_VALIDATORS[key](value), when it returns
ATTRIBUTE_VALIDATORS(key, value) ==
    IF key \in {"names", "dupnames"} THEN validate_refname_list(value)
    ELSE value

\* the keys that start with 'internal:'
InternalKeys == {"internal:x"}

\* self.attributes.items(): the list attributes Element.__init__ sets,
\* then the keyword arguments
KeyOrder ==
    <<"ids", "names", "dupnames", "refuri", "bullet", "bogus", "internal:x",
      "xml:space">>
items(attrs) == SelectSeq(KeyOrder, LAMBDA key : key \in DOMAIN attrs)

\* validate_attributes, lines 1133-1144: the message one key adds
attribute_message(st, self, key) ==
    IF key \in InternalKeys THEN <<>>
    ELSE IF key \notin valid_attributes(Class(self))
    THEN << Message("Attribute not one of", <<key>>, <<>>) >>
    ELSE IF ValidatorRaises(key, st.attributes[self][key])
    THEN << Message("Attribute has invalid value", <<key>>, <<>>) >>
    ELSE <<>>

\* validate_attributes, line 1141: the value of a valid key is normalized
attribute_value(st, self, key) ==
    IF \/ key \in InternalKeys
       \/ key \notin valid_attributes(Class(self))
       \/ ValidatorRaises(key, st.attributes[self][key])
    THEN st
    ELSE [st EXCEPT !.attributes[self][key] = ATTRIBUTE_VALIDATORS(key, @)]

\* validate_attributes, lines 1132-1148: the loop over the attributes and
\* the ValidationError that reports every message collected
RECURSIVE attributes_loop(_, _, _, _)
attributes_loop(st, self, keys, msgs) ==
    IF keys = <<>>
    THEN IF msgs # <<>> THEN ValidationError(st, msgs, self) ELSE st
    ELSE attributes_loop(attribute_value(st, self, Head(keys)), self,
                         Tail(keys),
                         msgs \o attribute_message(st, self, Head(keys)))

\* Element.validate_attributes, lines 1122-1148
validate_attributes(st, self) ==
    attributes_loop(st, self, items(st.attributes[self]), <<>>)

\* Element._report_child, lines 1189-1202
_report_child(child, category) ==
    IF child = None THEN Message("Missing child of type", category, <<>>)
    ELSE Message("Expecting child of type", category, <<Class(child)>>)

\* subtitle.check_position, lines 1440-1445; parent.index(self) raises
\* ValueError when the parent does not hold the node
subtitle_check_position(st, self) ==
    IF parent[self] = None THEN st
    ELSE IF ListIndex(children[parent[self]], self) < 0
    THEN [st EXCEPT !.err = "ValueError"]
    ELSE IF ListIndex(children[parent[self]], self) = 0
    THEN ValidationError(
             st, << Message("<subtitle> only allowed after <title>.",
                            <<>>, <<>>) >>, self)
    ELSE st

\* Element.previous_sibling, lines 743-749, of a node its parent holds
previous_sibling(self) ==
    IF ListIndex(children[parent[self]], self) > 0
    THEN children[parent[self]][ListIndex(children[parent[self]], self)]
    ELSE None

\* transition.check_position, lines 1489-1502: the messages collected
transition_messages(self, predecessor) ==
    (IF \/ predecessor = None
        \/ isinstance(predecessor,
                      <<"title", "subtitle", "meta", "decoration">>)
     THEN << Message("<transition> may not begin a section or document.",
                     <<>>, <<>>) >>
     ELSE <<>>)
    \o (IF ListIndex(children[parent[self]], self)
             = Len(children[parent[self]]) - 1
        THEN << Message("<transition> may not end a section or document.",
                        <<>>, <<>>) >>
        ELSE <<>>)
    \o (IF isinstance(predecessor, <<"transition">>)
        THEN << Message(
                 "<transition> may not directly follow another transition.",
                 <<>>, <<>>) >>
        ELSE <<>>)

\* transition.check_position, lines 1483-1505; self.parent.starttag()
\* raises AttributeError when the node has no parent
transition_check_position(st, self) ==
    IF parent[self] = None THEN [st EXCEPT !.err = "AttributeError"]
    ELSE IF ListIndex(children[parent[self]], self) < 0
    THEN [st EXCEPT !.err = "ValueError"]
    ELSE IF transition_messages(self, previous_sibling(self)) # <<>>
    THEN ValidationError(
             st, transition_messages(self, previous_sibling(self)), self)
    ELSE st

\* child.check_position(): the hook of Element and Text does nothing
check_position(st, self) ==
    IF Class(self) = "subtitle" THEN subtitle_check_position(st, self)
    ELSE IF Class(self) = "transition"
    THEN transition_check_position(st, self)
    ELSE st

\* next(ichildren, None) when the iterator stands before elements[i]
ChildAt(elements, i) == IF i <= Len(elements) THEN elements[i] ELSE None

\* validate_content, lines 1170-1187: the loop over the content model;
\* child is elements[i], or None when i is past the end
RECURSIVE content_model_loop(_, _, _, _)
RECURSIVE advance(_, _, _, _)
RECURSIVE pass_matching(_, _, _, _)

content_model_loop(st, model, elements, i) ==
    IF st.err # "none" THEN st
    ELSE IF model = <<>>
    THEN [st EXCEPT !.leftover = SubSeq(elements, i, Len(elements))]
    ELSE IF ~isinstance(ChildAt(elements, i), Head(model)[1])
    THEN IF Head(model)[2] \in {".", "+"}
         THEN ValidationError(
                  st, << _report_child(ChildAt(elements, i),
                                       Head(model)[1]) >>,
                  ChildAt(elements, i))
         ELSE content_model_loop(st, Tail(model), elements, i)
    ELSE advance(check_position(st, elements[i]), model, elements, i)

\* validate_content, lines 1178-1186; s1 is the state after line 1176
advance(s1, model, elements, i) ==
    IF s1.err # "none" THEN s1
    ELSE IF Head(model)[2] \in {".", "?"}
    THEN content_model_loop(s1, Tail(model), elements, i + 1)
    ELSE pass_matching(s1, model, elements, i + 1)

\* (a variant that passes the first matching element only)
pass_matching_one(st, model, elements, j) ==
    content_model_loop(st, Tail(model), elements, j)

\* validate_content, lines 1181-1186: for child in ichildren
pass_matching(st, model, elements, j) ==
    IF st.err # "none" THEN st
    ELSE IF j > Len(elements) \/ ~isinstance(elements[j], Head(model)[1])
    THEN content_model_loop(st, Tail(model), elements, j)
    ELSE pass_matching(check_position(st, elements[j]), model, elements,
                       j + 1)

\* Element.validate_content, lines 1150-1187
validate_content(st, model, elements) ==
    content_model_loop(st, model, elements, 1)

\* the result of a validate_content that does not return
NeverReturns == "Diverges"

\* authors.validate_content, lines 1960-1961: the while loop. relics is
\* r.st.leftover, rounds the element lists the calls so far were given, and
\* fuel bounds the repetitions (a loop that uses it up does not end)
RECURSIVE authors_loop(_, _)
authors_loop(r, fuel) ==
    IF r.st.err # "none" \/ r.st.leftover = <<>> THEN r
    ELSE IF fuel = 0 THEN [r EXCEPT !.st.err = NeverReturns]
    ELSE authors_loop(
             [st |-> validate_content([r.st EXCEPT !.leftover = <<>>],
                                      content_model("authors"),
                                      r.st.leftover),
              rounds |-> Append(r.rounds, r.st.leftover)],
             fuel - 1)

\* (a variant without the loop: one pass over the children)
authors_rounds_once(st, self) ==
    [st |-> validate_content(st, content_model("authors"), children[self]),
     rounds |-> <<children[self]>>]

\* authors.validate_content, lines 1959-1962, with the element lists of
\* its calls of Element.validate_content
authors_rounds(st, self) ==
    authors_loop(
        [st |-> validate_content(st, content_model("authors"),
                                 children[self]),
         rounds |-> <<children[self]>>],
        Len(children[self]) + 1)

\* authors.validate_content, lines 1954-1962
authors_validate_content(st, self) == authors_rounds(st, self).st

\* self.validate_content() as validate calls it: authors overrides it
self_validate_content(st, self) ==
    IF Class(self) = "authors" THEN authors_validate_content(st, self)
    ELSE validate_content(st, content_model(Class(self)), children[self])

\* validate, lines 1227-1236: the first leftover child raises
leftover_error(s2, self, child) ==
    IF isinstance(child, <<"Text">>)
    THEN ValidationError(s2, << Message("Spurious text", <<>>, <<>>) >>, self)
    ELSE ValidationError(
             s2, << Message("Child element not allowed at this position.",
                            <<>>, <<Class(child)>>) >>, child)

RECURSIVE validate(_, _)
RECURSIVE validate_children(_, _)

\* validate, lines 1227-1240; s2 is the state after line 1226, and
\* leftover_childs what validate_content returned
validate_leftover(s2, self, leftover_childs) ==
    IF s2.err # "none" THEN s2
    ELSE IF leftover_childs # <<>>
    THEN leftover_error(s2, self, Head(leftover_childs))
    ELSE validate_children(s2, children[self])

\* validate, line 1226: leftover_childs = self.validate_content()
validate_returned(c, self) ==
    validate_leftover([c EXCEPT !.leftover = <<>>], self, c.leftover)

\* validate, lines 1226-1240; s1 is the state after line 1224
validate_structure(s1, self) ==
    IF s1.err # "none" THEN s1
    ELSE validate_returned(self_validate_content(s1, self), self)

\* Element.validate, lines 1211-1240, and Text.validate, lines 401-403
validate(st, self) ==
    IF Class(self) = "Text" THEN st
    ELSE validate_structure(validate_attributes(st, self), self)

\* validate, lines 1238-1240: for child in self: child.validate()
validate_children(st, todo) ==
    IF todo = <<>> \/ st.err # "none" THEN st
    ELSE validate_children(validate(st, Head(todo)), Tail(todo))

\* the attributes the containers of a run are built with: none, one that
\* is not permitted, an id that is no identifier next to one that is not
\* permitted, and a name to normalize next to an internal attribute
ContainerAttributes ==
    << Attrs(<<>>, <<>>),
       [ids |-> <<>>, names |-> <<>>, dupnames |-> <<>>, bogus |-> <<"1">>],
       [ids |-> <<NameCapA>>, names |-> <<>>, dupnames |-> <<>>,
        bogus |-> <<"1">>],
       [ids |-> <<IdX>>, names |-> << <<"a", " ", " ", "a">> >>,
        dupnames |-> <<>>, bullet |-> <<"*">>]
          @@ ("internal:x" :> <<"1">>) >>

\* the call is over: what it leaves
Validated(st, method, self, model) ==
    /\ Len(outcome) < MaxValidations
    /\ attributes' = st.attributes
    /\ outcome' = Append(outcome,
                         [method |-> method, node |-> self, model |-> model,
                          err |-> st.err, messages |-> st.messages,
                          problematic |-> st.problematic,
                          leftover |-> st.leftover])
    /\ UNCHANGED <<treeVars, walkVars, settings, ids, nameids, nametypes,
                   id_counter, substitution_defs, substitution_names, messages,
                   last, noted_explicit, ncalls,
                   edits, objects, lists>>

\* no traversal runs and no registration is made
NoWalk ==
    /\ mode = "idle" /\ stack = <<>> /\ ret = "none"
    /\ visited = <<>> /\ departed = <<>> /\ vsig = <<>> /\ dsig = <<>>

NoDocument ==
    /\ settings = <<>>
    /\ ids = <<>> /\ nameids = <<>> /\ nametypes = <<>> /\ id_counter = <<>>
    /\ substitution_defs = <<>> /\ substitution_names = <<>>
    /\ messages = <<>> /\ last = <<>> /\ noted_explicit = {} /\ ncalls = 0

\* the nodes after construction, before any is put into another
InitValidate ==
    /\ children = [n \in VElements |-> <<>>]
    /\ parent = [n \in VNodes |-> None]
    /\ _document = [n \in VNodes |-> IF Class(n) = "document" THEN n
                                      ELSE None]
    /\ nops = 0
    /\ \E v \in DOMAIN ContainerAttributes :
          attributes = [n \in VElements |->
                           IF n \in VContainers THEN ContainerAttributes[v]
                           ELSE Built(n)]
    /\ outcome = <<>> /\ edits = {} /\ objects = <<>> /\ lists = <<>>
    /\ NoWalk /\ NoDocument

\* the nodes a run puts into containers
BuildItems == {2, 3, 4, 5, 6, 7, 8, 9, 11}

\* Element.append, building the trees to validate: a node is put into a
\* container of lower number, so that the children never form a cycle
AppendChild(self, item) ==
    /\ nops < MaxBuild
    /\ self < item
    /\ children' = append(Now, self, item).children
    /\ parent' = append(Now, self, item).parent
    /\ _document' = append(Now, self, item)._document
    /\ nops' = nops + 1
    /\ UNCHANGED <<walkVars, idVars, auxVars>>

\* self.validate()
Validate(self) ==
    Validated(validate(Validating, self), "validate", self, <<>>)

NextValidate ==
    \/ \E self \in VContainers : \E item \in BuildItems :
          AppendChild(self, item)
    \/ \E self \in VContainers : Validate(self)

SpecValidate == InitValidate /\ [][NextValidate]_vars

\* the content models and the children validate_content is applied to
Quantifiers == {".", "?", "+", "*"}
Categories ==
    { <<"list_item">>, <<"subtitle">>,
      <<"Body", "topic", "sidebar", "transition">> }
ModelPairs == {<<category, quantifier>> :
                  category \in Categories, quantifier \in Quantifiers}
Models == UNION {[1..k -> ModelPairs] : k \in 0..MaxModel}
ContentItems == {6, 7, 8, 9, 10, 11}
ContentSelf == 4

\* an element built with its children: Element(rawsource, *children)
InitContent ==
    /\ \E elements \in UNION {[1..k -> ContentItems] : k \in 0..MaxElements} :
          /\ \A i, j \in DOMAIN elements : i # j => elements[i] # elements[j]
          /\ children = [n \in VElements |->
                            IF n = ContentSelf THEN elements ELSE <<>>]
          /\ parent = [n \in VNodes |->
                          IF n \in Range(elements) THEN ContentSelf
                          ELSE None]
    /\ _document = [n \in VNodes |-> IF Class(n) = "document" THEN n
                                      ELSE None]
    /\ nops = 0
    /\ attributes = [n \in VElements |-> Built(n)]
    /\ outcome = <<>> /\ edits = {} /\ objects = <<>> /\ lists = <<>>
    /\ NoWalk /\ NoDocument

\* self.validate_content(model)
ValidateContent(self, model) ==
    Validated(validate_content(Validating, model, children[self]),
              "validate_content", self, model)

\* one call on the element that was built: validate_content changes nothing
NextContent ==
    outcome = <<>> /\ \E model \in Models : ValidateContent(ContentSelf, model)

SpecContent == InitContent /\ [][NextContent]_vars

\* the placement of transitions: a document or a section is built with
\* children (section, title, paragraph and two transitions), children are
\* appended to the document or the section, and one of the two is validated
TransitionParents == {1, 2}
TransitionItems == {2, 5, 7, 8, 12}

\* an element built with its children: Element(rawsource, *children)
InitTransition ==
    /\ \E self \in TransitionParents :
       \E elements \in UNION {[1..k -> TransitionItems] :
                                 k \in 0..MaxElements} :
          /\ \A i, j \in DOMAIN elements : i # j => elements[i] # elements[j]
          /\ \A i \in DOMAIN elements : self < elements[i]
          /\ children = [n \in VElements |->
                            IF n = self THEN elements ELSE <<>>]
          /\ parent = [n \in VNodes |->
                          IF n \in Range(elements) THEN self ELSE None]
    /\ _document = [n \in VNodes |-> IF Class(n) = "document" THEN n
                                      ELSE None]
    /\ nops = 0
    /\ attributes = [n \in VElements |-> Built(n)]
    /\ outcome = <<>> /\ edits = {} /\ objects = <<>> /\ lists = <<>>
    /\ NoWalk /\ NoDocument

NextTransition ==
    \/ \E self \in TransitionParents : \E item \in TransitionItems :
          AppendChild(self, item)
    \/ \E self \in TransitionParents : Validate(self)

SpecTransition == InitTransition /\ [][NextTransition]_vars

\* the authors element: built with authors, an organization, an address, a
\* contact, a paragraph and a Text node as children
AuthorsParents == {13}
AuthorsItems == {7, 11, 14, 15, 16, 17, 18}

\* an element built with its children: Element(rawsource, *children)
InitAuthors ==
    /\ \E self \in AuthorsParents :
       \E elements \in UNION {[1..k -> AuthorsItems] : k \in 0..MaxElements} :
          /\ \A i, j \in DOMAIN elements : i # j => elements[i] # elements[j]
          /\ children = [n \in VElements |->
                            IF n = self THEN elements ELSE <<>>]
          /\ parent = [n \in VNodes |->
                          IF n \in Range(elements) THEN self ELSE None]
    /\ _document = [n \in VNodes |-> IF Class(n) = "document" THEN n
                                      ELSE None]
    /\ nops = 0
    /\ attributes = [n \in VElements |-> Built(n)]
    /\ outcome = <<>> /\ edits = {} /\ objects = <<>> /\ lists = <<>>
    /\ NoWalk /\ NoDocument

\* self.validate_content() of an authors element
AuthorsValidateContent(self) ==
    LET r == authors_rounds(Validating, self) IN
    /\ Len(outcome) < MaxValidations
    /\ attributes' = r.st.attributes
    /\ outcome' = Append(outcome,
                         [method |-> "validate_content", node |-> self,
                          model |-> content_model("authors"),
                          err |-> r.st.err, messages |-> r.st.messages,
                          problematic |-> r.st.problematic,
                          leftover |-> r.st.leftover, rounds |-> r.rounds])
    /\ UNCHANGED <<treeVars, walkVars, settings, ids, nameids, nametypes,
                   id_counter, substitution_defs, substitution_names, messages,
                   last, noted_explicit, ncalls,
                   edits, objects, lists>>

NextAuthors ==
    \/ \E self \in AuthorsParents : AuthorsValidateContent(self)
    \/ \E self \in AuthorsParents : Validate(self)

SpecAuthors == InitAuthors /\ [][NextAuthors]_vars

\* the decoration of a document: the document is built with children (a
\* section, a title, a subtitle, a paragraph, a transition, a meta element,
\* a rubric and a docinfo), and get_decoration is called on it
DecorationSelf == 1
DecorationItems == {2, 5, 6, 7, 8, 19, 20, 26}

\* the node that decoration() creates
NewDecoration == 25

\* Node.__bool__: a node is always true; None is not
Node_bool(node) == node # None

\* Element.first_child_not_matching_class with start=0 and no end: the
\* index (0-based) of the first child that is an instance of none of the
\* classes; -1 stands for None
first_child_not_matching_class(st, self, childclass) ==
    LET kids == st.children[self]
        others == {i \in DOMAIN kids : ~isinstance(kids[i], childclass)}
    IN IF others = {} THEN 0 - 1
       ELSE (CHOOSE i \in others : \A j \in others : i <= j) - 1

\* document.get_decoration; decoration is self.decoration before the call
get_decoration(st, self, decoration) ==
    IF ~Node_bool(decoration)
    THEN LET index == first_child_not_matching_class(
                          st, self, <<"Titular", "meta">>)
         IN [st |-> IF index < 0 THEN append(st, self, NewDecoration)
                    ELSE insert(st, self, index, NewDecoration),
             decoration |-> NewDecoration]
    ELSE [st |-> st, decoration |-> decoration]

\* document(settings, reporter, '', *children): self.decoration = None
InitDecoration ==
    /\ \E elements \in UNION {[1..k -> DecorationItems] :
                                 k \in 0..MaxElements} :
          /\ \A i, j \in DOMAIN elements : i # j => elements[i] # elements[j]
          /\ children = [n \in VElements |->
                            IF n = DecorationSelf THEN elements ELSE <<>>]
          /\ parent = [n \in VNodes |->
                          IF n \in Range(elements) THEN DecorationSelf
                          ELSE None]
    /\ _document = [n \in VNodes |-> IF Class(n) = "document" THEN n
                                      ELSE None]
    /\ nops = 0
    /\ attributes = [n \in VElements |-> Built(n)]
    /\ objects = <<[class |-> "document", decoration |-> None]>>
    /\ outcome = <<>> /\ edits = {} /\ lists = <<>>
    /\ NoWalk /\ NoDocument

\* self.get_decoration()
GetDecoration(self) ==
    LET r == get_decoration(Now, self, objects[self].decoration) IN
    /\ Len(outcome) < MaxCalls
    /\ children' = r.st.children
    /\ parent' = r.st.parent
    /\ _document' = r.st._document
    /\ objects' = [objects EXCEPT ![self].decoration = r.decoration]
    /\ outcome' = Append(outcome, [method |-> "get_decoration",
                                   node |-> self, value |-> r.decoration])
    /\ UNCHANGED <<walkVars, idVars, nops, edits, lists>>

NextDecoration == GetDecoration(DecorationSelf)

SpecDecoration == InitDecoration /\ [][NextDecoration]_vars

\* ============================================ traversal of a changing tree
\* The visitor may change the tree from inside its visit_ and depart_
\* methods. The tree has one more node than the traversal starts with: a
\* new node the visitor may put into the tree.
InitMutate ==
    /\ \E n \in 1..MaxEditNodes : \E pf \in TreeShapes(n) :
          /\ children = [i \in 1..(n + 1) |->
                            IF i <= n THEN SetToSeq({j \in 2..n : pf[j] = i})
                            ELSE <<>>]
          /\ parent = [i \in 1..(n + 1) |->
                          IF i = 1 \/ i = n + 1 THEN None ELSE pf[i]]
    /\ mode \in {"walk", "walkabout"}
    /\ stack = <<Frame(WalkRoot)>>
    /\ ret = "none"
    /\ visited = <<>>
    /\ departed = <<>>
    /\ vsig = [i \in DOMAIN children |-> NoSignal]
    /\ dsig = [i \in DOMAIN children |-> NoSignal]
    /\ _document = [i \in DOMAIN children |-> None]
    /\ nops = 0
    /\ NoRegistry
    /\ NoAux

\* dispatch_visit or dispatch_departure of the node on top is running
VisitorRuns ==
    /\ stack # <<>>
    /\ \/ Top.pc = "visit"
       \/ mode = "walkabout" /\ Top.pc = "depart" /\ Top.call_depart

\* the node the visitor is at and its ancestors in the traversal: the
\* nodes whose children the visitor changes
Active == {stack[k].node : k \in DOMAIN stack}

\* the loop over the children of self has item still to come
Pending(self, item) ==
    \E k \in DOMAIN stack :
       /\ stack[k].node = self /\ stack[k].pc = "children"
       /\ item \in Range(stack[k].todo)

\* self has been visited: if its activation loops over children, it loops
\* over the copy it has taken
SnapshotTaken(self) == self \in Range(visited)

\* a node that is in no tree yet
IsNew(item) ==
    /\ item # WalkRoot /\ parent[item] = None
    /\ \A n \in DOMAIN children : item \notin Range(children[n])

\* (a variant in which the loop iterates over self.children itself)
slice_alias(todo, node, self, item) ==
    IF node = self /\ item \in Range(todo) THEN ListRemove(todo, item)
    ELSE todo

\* walk line 148, walkabout line 184: children[:] is a new list, a later
\* self.children.remove(item) does not reach it
slice_copy(todo, node, self, item) == todo

\* del s[i], 0-based
RemoveAt(s, i) == SubSeq(s, 1, i) \o SubSeq(s, i + 2, Len(s))

\* (a variant that removes the child that is the item itself)
remove_identical(st, self, item) ==
    IF item \notin Range(st.children[self]) THEN Raise(st, "ValueError")
    ELSE Put(st, self, RemoveAt(st.children[self],
                                IndexIn(st.children[self], item) - 1))

\* Element.remove: list.remove takes out the first child == item
remove(st, self, item) ==
    IF ListIndex(st.children[self], item) < 0 THEN Raise(st, "ValueError")
    ELSE Put(st, self, RemoveAt(st.children[self],
                                ListIndex(st.children[self], item)))

\* the visitor's call has returned: what it leaves
Edited(st, changes) ==
    /\ nops < MaxEdits
    /\ st.err = ""
    /\ children' = st.children
    /\ parent' = st.parent
    /\ _document' = st._document
    /\ nops' = nops + 1
    /\ edits' = edits \cup changes
    /\ UNCHANGED <<mode, ret, visited, departed, vsig, dsig, idVars, outcome,
                   objects, lists>>

\* the visitor calls self.remove(item)
VisitorRemove(self, item) ==
    /\ VisitorRuns
    /\ self \in Active
    /\ item \in Range(children[self])
    /\ Edited(remove(Now, self, item),
              {[op |-> "remove", self |-> self, child |-> item,
                snapshot |-> Pending(self, item)]})
    /\ stack' = [k \in DOMAIN stack |->
                    [stack[k] EXCEPT
                        !.todo = slice_copy(@, stack[k].node, self, item)]]

\* the visitor calls self.insert(index, item) with a new node
VisitorInsert(self, index, item) ==
    /\ VisitorRuns
    /\ self \in Active
    /\ IsNew(item) /\ item # self
    /\ index \in 0..Len(children[self])
    /\ Edited(insert(Now, self, index, item),
              {[op |-> "insert", self |-> self, child |-> item,
                snapshot |-> SnapshotTaken(self)]})
    /\ UNCHANGED stack

\* the visitor calls self.replace(old, new) with a new node
VisitorReplace(self, old, new) ==
    /\ VisitorRuns
    /\ self \in Active
    /\ old \in Range(children[self])
    /\ IsNew(new) /\ new # self
    /\ Edited(replace(Now, self, old, new),
              {[op |-> "remove", self |-> self, child |-> old,
                snapshot |-> Pending(self, old)],
               [op |-> "insert", self |-> self, child |-> new,
                snapshot |-> SnapshotTaken(self)]})
    /\ UNCHANGED stack

\* the signals a visitor that changes the tree raises
EditSignals == {"StopTraversal"}

\* the visitor keeps to these signals and to their number
VisitorSignals ==
    /\ SignalCount <= MaxEditSignals
    /\ \A n \in DOMAIN vsig : vsig[n] \in EditSignals \cup {NoSignal}
    /\ \A n \in DOMAIN dsig : dsig[n] \in EditSignals \cup {NoSignal}

NextMutate ==
    \/ NextWalk /\ VisitorSignals'
    \/ \E self, item \in DOMAIN children : VisitorRemove(self, item)
    \/ \E self, item \in DOMAIN children :
          \E index \in 0..MaxEditNodes : VisitorInsert(self, index, item)
    \/ \E self, old, new \in DOMAIN children : VisitorReplace(self, old, new)

SpecMutate == InitMutate /\ [][NextMutate]_vars

\* ================================================ taking children out
\* An Element with children, some of them Text nodes with equal strings,
\* and the operations that take a child out of it or put another node in
\* its place.
\* the Element the operations are called on
RemoveParents == {1}
RemoveElements == {1, 2, 3}
RemoveTexts == {21, 22, 23}
RemoveNodes == RemoveElements \cup RemoveTexts
\* the nodes the Element is built with, and the node put in later
RemoveKids == {2, 21, 22, 23}
RemoveNew == {3}

\* Element(rawsource, *children) with distinct children
InitRemove ==
    /\ \E kids \in UNION {[1..k -> RemoveKids] : k \in 0..MaxKids} :
          /\ \A i, j \in DOMAIN kids : i # j => kids[i] # kids[j]
          /\ children = [e \in RemoveElements |->
                            IF e \in RemoveParents THEN kids ELSE <<>>]
          /\ parent = [n \in RemoveNodes |->
                          IF n \in Range(kids)
                          THEN CHOOSE e \in RemoveParents : TRUE
                          ELSE None]
    /\ _document = [n \in RemoveNodes |-> None]
    /\ nops = 0
    /\ mode = "idle" /\ stack = <<>> /\ ret = "none"
    /\ visited = <<>> /\ departed = <<>>
    /\ vsig = <<>> /\ dsig = <<>>
    /\ NoRegistry
    /\ NoAux

\* a list index as Python reads it: a negative index counts from the end;
\* -1 stands for IndexError
PyIndex(s, i) ==
    IF i < 0 - Len(s) \/ i >= Len(s) THEN 0 - 1
    ELSE IF i < 0 THEN i + Len(s) ELSE i

\* Element.pop, lines 734-735: self.children.pop(i)
pop(st, self, i) ==
    IF PyIndex(st.children[self], i) < 0 THEN Raise(st, "IndexError")
    ELSE Put(st, self, RemoveAt(st.children[self],
                                PyIndex(st.children[self], i)))

\* Element.__delitem__ with an int key, lines 652-653
delitem(st, self, key) ==
    IF PyIndex(st.children[self], key) < 0 THEN Raise(st, "IndexError")
    ELSE Put(st, self, RemoveAt(st.children[self],
                                PyIndex(st.children[self], key)))

\* Element.__delitem__ with a slice key start:stop, lines 654-656
delslice(st, self, start, stop) ==
    Put(st, self, SetSliceOf(st.children[self], start, stop, <<>>))

\* Element.clear, lines 985-986: self.children = []
clear(st, self) == Put(st, self, <<>>)

\* the call is over (returned, or raised st.err): what it leaves
Changed(st, method, self, item, new) ==
    /\ nops < MaxOps
    /\ children' = st.children
    /\ parent' = st.parent
    /\ _document' = st._document
    /\ nops' = nops + 1
    /\ outcome' = Append(outcome,
                         [method |-> method, node |-> self, item |-> item,
                          new |-> new, before |-> children[self],
                          err |-> st.err])
    /\ UNCHANGED <<walkVars, idVars, edits, objects, lists>>

Remove(self, item) == Changed(remove(Now, self, item), "remove", self, item, None)

PopChild(self, i) == Changed(pop(Now, self, i), "pop", self, i, None)

DelItem(self, key) ==
    Changed(delitem(Now, self, key), "delitem", self, key, None)

DelSlice(self, start, stop) ==
    /\ start \in 0..Len(children[self]) /\ stop \in start..Len(children[self])
    /\ Changed(delslice(Now, self, start, stop), "delslice", self,
               <<start, stop>>, None)

Clear(self) == Changed(clear(Now, self), "clear", self, None, None)

ReplaceChild(self, old, new) ==
    Changed(replace(Now, self, old, new), "replace", self, old, new)

AssignItem(self, key, item) ==
    /\ key \in 0..Len(children[self])
    /\ Changed(setitem(Now, self, key, item), "setitem", self, key, item)

AssignSlice(self, start, stop, item) ==
    /\ start \in 0..Len(children[self]) /\ stop \in start..Len(children[self])
    /\ Changed(setslice(Now, self, start, stop, item), "setslice", self,
               <<start, stop>>, item)

NextRemove ==
    \E self \in RemoveParents :
        \/ \E item \in RemoveNodes \ {self} : Remove(self, item)
        \/ \E i \in (0 - 1)..MaxKids : PopChild(self, i)
        \/ \E key \in (0 - 1)..MaxKids : DelItem(self, key)
        \/ \E start, stop \in 0..MaxKids : DelSlice(self, start, stop)
        \/ Clear(self)
        \/ \E old \in RemoveNodes \ {self} : \E new \in RemoveNew :
              ReplaceChild(self, old, new)
        \/ \E key \in 0..MaxKids : \E item \in RemoveNew :
              AssignItem(self, key, item)
        \/ \E start, stop \in 0..MaxKids : \E item \in RemoveNew :
              AssignSlice(self, start, stop, <<item>>)

SpecRemove == InitRemove /\ [][NextRemove]_vars

\* ================================================================= copies
\* Objects are created here, so every node carries its class, and list
\* values are objects of their own: an attribute value is a string (ref 0)
\* or a reference to a list.
TextElements == {"paragraph"}
CopyClasses == {"Element", "paragraph", "Text"}
list_attributes == <<"ids", "classes", "names", "dupnames">>

StrValue(s) == [ref |-> 0, str |-> s]
ListValue(r) == [ref |-> r, str |-> ""]

\* the state a constructor or a copy works on
Heap == [children |-> children, parent |-> parent, _document |-> _document,
         attributes |-> attributes, objects |-> objects, lists |-> lists,
         err |-> "", result |-> None]

\* str.lower() on the attribute names that occur
att_lower(att) == IF att = "Foo" THEN "foo" ELSE att

\* the order in which the attribute names that occur were inserted
CopyKeyOrder == <<"ids", "classes", "names", "dupnames", "Foo", "text",
                  "rawsource">>

\* dict.items() as a sequence of keys
keys(attrs) == SelectSeq(CopyKeyOrder, LAMBDA k : k \in DOMAIN attrs)

\* a new list object with the given items
NewList(st, seq) ==
    [st EXCEPT !.lists = Append(@, seq), !.result = Len(st.lists) + 1]

\* a new object of class cls without children, attributes or parent
NewObject(st, cls, tag, data) ==
    [st EXCEPT !.children = Append(@, <<>>),
               !.parent = Append(@, None),
               !._document = Append(@, None),
               !.attributes = Append(@, <<>>),
               !.objects = Append(@, [class |-> cls, tagname |-> tag,
                                      text |-> data]),
               !.result = Len(st.parent) + 1]

\* Text(data)
NewText(st, data) == NewObject(st, "Text", "#text", data)

\* self.attributes[att] = value
SetAttribute(st, self, att, value) ==
    [st EXCEPT !.attributes[self] = (att :> value) @@ @]

\* Element.__init__, "for att in self.list_attributes:
\* self.attributes[att] = []"
RECURSIVE init_list_attributes(_, _, _)
init_list_attributes(st, self, atts) ==
    IF atts = <<>> THEN st
    ELSE LET s1 == NewList(st, <<>>)
         IN init_list_attributes(
                SetAttribute(s1, self, Head(atts), ListValue(s1.result)),
                self, Tail(atts))

\* value[:] of a list attribute: a new list with the same items (of a
\* string, the string)
list_copy(st, value) ==
    IF value.ref = 0 THEN [st EXCEPT !.result = value]
    ELSE LET s1 == NewList(st, st.lists[value.ref])
         IN [s1 EXCEPT !.result = ListValue(s1.result)]

\* Element.__init__, "for att, value in attributes.items()"
RECURSIVE init_attributes(_, _, _, _)
init_attributes(st, self, attrs, todo) ==
    IF todo = <<>> THEN st
    ELSE LET att == att_lower(Head(todo))
             value == attrs[Head(todo)]
         IN IF att \in Range(list_attributes)
            THEN LET s1 == list_copy(st, value)
                 IN init_attributes(SetAttribute(s1, self, att, s1.result),
                                    self, attrs, Tail(todo))
            ELSE init_attributes(SetAttribute(st, self, att, value),
                                 self, attrs, Tail(todo))

\* Element.__init__(self, rawsource, *childs, **attrs) of class cls
Element__init__(st, cls, childs, attrs) ==
    LET s1 == NewObject(st, cls, cls, "")
        self == s1.result
        s2 == extend(s1, self, childs)
        s3 == init_list_attributes(s2, self, list_attributes)
        s4 == init_attributes(s3, self, attrs, keys(attrs))
    IN IF s2.err # "" THEN s2 ELSE [s4 EXCEPT !.result = self]

\* a dictionary without one key
Without(attrs, key) == [k \in DOMAIN attrs \ {key} |-> attrs[k]]

\* TextElement.__init__(self, rawsource, text, *childs, **attrs)
TextElement__init__(st, cls, data, attrs) ==
    IF data # ""
    THEN LET s1 == NewText(st, data)
         IN Element__init__(s1, cls, <<s1.result>>, attrs)
    ELSE Element__init__(st, cls, <<>>, attrs)

\* self.__class__(rawsource=self.rawsource, **self.attributes): the
\* keyword arguments that name a parameter of __init__ are bound to it
construct(st, cls, attrs) ==
    IF "rawsource" \in DOMAIN attrs THEN Raise(st, "TypeError")
    ELSE IF cls \in TextElements /\ "text" \in DOMAIN attrs
    THEN TextElement__init__(st, cls, attrs["text"].str,
                             Without(attrs, "text"))
    ELSE IF cls \in TextElements
    THEN TextElement__init__(st, cls, "", attrs)
    ELSE Element__init__(st, cls, <<>>, attrs)

\* document.copy: self.__class__(self.settings, self.reporter,
\* **self.attributes); document.__init__ passes the keyword arguments on to
\* Element.__init__, where rawsource is a parameter, and ends with
\* self._document = self
document_copy(st, self) ==
    LET attrs == st.attributes[self]
        s1 == Element__init__(st, "document", <<>>,
                              Without(attrs, "rawsource"))
    IN [s1 EXCEPT !._document[s1.result] = s1.result]

\* Element.copy (source and line are not modelled)
Element_copy(st, self) ==
    LET s1 == construct(st, st.objects[self].class, st.attributes[self])
    IN IF s1.err # "" THEN s1
       ELSE [s1 EXCEPT !._document[s1.result] = st._document[self]]

\* self.copy() of an Element: document overrides Element.copy
copy(st, self) ==
    IF st.objects[self].class = "document" THEN document_copy(st, self)
    ELSE Element_copy(st, self)

\* Text.copy
Text_copy(st, self) == NewText(st, st.objects[self].text)

\* Element.deepcopy, Text.deepcopy; deepcopy_children is the list
\* comprehension [child.deepcopy() for child in self.children]
RECURSIVE deepcopy(_, _), deepcopy_children(_, _, _)
deepcopy(st, self) ==
    IF st.objects[self].class = "Text" THEN Text_copy(st, self)
    ELSE LET s1 == copy(st, self)
             obj == s1.result
             s2 == deepcopy_children(s1, st.children[self], <<>>)
             s3 == extend(s2, obj, s2.result)
         IN IF s1.err # "" THEN s1
            ELSE IF s2.err # "" THEN s2
            ELSE [s3 EXCEPT !.result = obj]

deepcopy_children(st, todo, done) ==
    IF todo = <<>> THEN [st EXCEPT !.result = done]
    ELSE LET s1 == deepcopy(st, Head(todo))
         IN IF s1.err # "" THEN s1
            ELSE deepcopy_children(s1, Tail(todo), Append(done, s1.result))

\* what == compares of an attribute dictionary: list values by their items
Deref(st, attrs) ==
    [k \in DOMAIN attrs |->
        IF attrs[k].ref = 0 THEN <<"str", attrs[k].str>>
        ELSE <<"list", st.lists[attrs[k].ref]>>]

\* the trees as they are at one moment
Snapshot(st) ==
    [children |-> st.children, parent |-> st.parent,
     objects |-> st.objects,
     attributes |-> [n \in DOMAIN st.attributes |->
                        Deref(st, st.attributes[n])]]

\* the attribute dictionaries of the elements that are copied: plain, with
\* values, with a mixed-case name, with the names of constructor
\* parameters, after del self['ids']
CopyAttributes ==
    LET plain == [ids |-> <<>>, classes |-> <<>>, names |-> <<>>,
                  dupnames |-> <<>>]
        full == [ids |-> <<"a">>, classes |-> <<"c">>, names |-> <<"n">>,
                 dupnames |-> <<>>]
    IN {[l |-> plain, s |-> <<>>],
        [l |-> full, s |-> <<>>],
        [l |-> plain, s |-> [Foo |-> "x"]],
        [l |-> plain, s |-> [text |-> "hi"]],
        [l |-> plain, s |-> [rawsource |-> "r"]],
        [l |-> [classes |-> <<>>, names |-> <<>>, dupnames |-> <<>>],
         s |-> <<>>]}

\* a Text node has no attributes
NoAttributes == [l |-> <<>>, s |-> <<>>]

\* the position of key among the list-valued keys of all nodes: every list
\* value is a list object of its own
ListRef(n, key, choice) ==
    Cardinality({p \in (1..n) \X Range(list_attributes) :
                    /\ p[2] \in DOMAIN choice[p[1]].l
                    /\ \/ p[1] < n
                       \/ /\ p[1] = n
                          /\ IndexIn(list_attributes, p[2])
                             <= IndexIn(list_attributes, key)})

InitCopy ==
    /\ \E n \in 1..MaxCopyNodes : \E pf \in TreeShapes(n) :
       \E cls \in [1..n -> CopyClasses] :
       \E choice \in [1..n -> CopyAttributes \cup {NoAttributes}] :
          /\ cls[1] # "Text"
          /\ \A i \in 2..n : cls[pf[i]] # "Text"
          /\ \A i \in 1..n : cls[i] = "Text" <=> choice[i] = NoAttributes
          /\ children = [i \in 1..n |-> SetToSeq({j \in 2..n : pf[j] = i})]
          /\ parent = [i \in 1..n |-> IF i = 1 THEN None ELSE pf[i]]
          /\ objects = [i \in 1..n |->
                          [class |-> cls[i],
                           tagname |-> IF cls[i] = "Text" THEN "#text"
                                       ELSE cls[i],
                           text |-> IF cls[i] = "Text" THEN "t" ELSE ""]]
          /\ attributes = [i \in 1..n |->
                 IF cls[i] = "Text" THEN <<>>
                 ELSE [k \in DOMAIN choice[i].l |->
                          ListValue(ListRef(i, k, choice))]
                      @@ [k \in DOMAIN choice[i].s |->
                             StrValue(choice[i].s[k])]]
          /\ lists = [r \in 1..ListRef(n, "dupnames", choice) |->
                 LET p == CHOOSE q \in (1..n) \X Range(list_attributes) :
                             /\ q[2] \in DOMAIN choice[q[1]].l
                             /\ ListRef(q[1], q[2], choice) = r
                 IN choice[p[1]].l[p[2]]]
    /\ _document = [i \in DOMAIN parent |-> None]
    /\ nops = 0
    /\ outcome = <<>> /\ edits = {}
    /\ NoWalk /\ NoDocument

\* a call has returned or raised: what it leaves
Copied(st, method, self) ==
    /\ Len(outcome) < MaxCopies
    /\ children' = st.children
    /\ parent' = st.parent
    /\ _document' = st._document
    /\ attributes' = st.attributes
    /\ objects' = st.objects
    /\ lists' = st.lists
    /\ outcome' = Append(outcome,
                         [method |-> method, node |-> self,
                          err |-> st.err,
                          result |-> IF st.err = "" THEN st.result ELSE None,
                          before |-> Snapshot(Heap),
                          after |-> Snapshot(st)])
    /\ UNCHANGED <<nops, walkVars, settings, ids, nameids, nametypes,
                   id_counter, substitution_defs, substitution_names, messages,
                   last, noted_explicit, ncalls,
                   edits>>

IsElement(n) == n \in DOMAIN objects /\ objects[n].class # "Text"

\* self.copy()
Copy(self) == IsElement(self) /\ Copied(copy(Heap, self), "copy", self)

\* self.deepcopy()
Deepcopy(self) == IsElement(self) /\ Copied(deepcopy(Heap, self), "deepcopy", self)

\* obj[key].append(item) on a list attribute of the object a call returned
AppendToList(obj, key) ==
    /\ nops < MaxAppends
    /\ \E i \in DOMAIN outcome : outcome[i].result = obj
    /\ key \in DOMAIN attributes[obj] /\ attributes[obj][key].ref # 0
    /\ lists' = [lists EXCEPT ![attributes[obj][key].ref] = Append(@, "z")]
    /\ nops' = nops + 1
    /\ UNCHANGED <<children, parent, _document, walkVars, idVars, outcome,
                   edits, objects>>

NextCopy ==
    \/ \E self \in DOMAIN objects : Copy(self)
    \/ \E self \in DOMAIN objects : Deepcopy(self)
    \/ \E obj \in DOMAIN objects : \E key \in Range(list_attributes) :
          AppendToList(obj, key)

SpecCopy == InitCopy /\ [][NextCopy]_vars

\* the copy of a document tree: a document (node 1), Elements and a Text
\* node (the last) are created, put into each other in any order, and the
\* document is copied
DocNodes == 1..(MaxCopyNodes + 1)
DocClass(n) == IF n = 1 THEN "document"
               ELSE IF n = MaxCopyNodes + 1 THEN "Text" ELSE "Element"

\* the objects after construction: only the document names a document
InitDeepcopy ==
    /\ children = [i \in DocNodes |-> <<>>]
    /\ parent = [i \in DocNodes |-> None]
    /\ _document = [i \in DocNodes |-> IF i = 1 THEN 1 ELSE None]
    /\ objects = [i \in DocNodes |->
                     [class |-> DocClass(i),
                      tagname |-> IF DocClass(i) = "Text" THEN "#text"
                                  ELSE DocClass(i),
                      text |-> IF DocClass(i) = "Text" THEN "t" ELSE ""]]
    /\ \E full \in SUBSET {i \in DocNodes : DocClass(i) # "Text"} :
          /\ attributes = [i \in DocNodes |->
                 IF DocClass(i) = "Text" THEN <<>>
                 ELSE [k \in Range(list_attributes) |->
                          ListValue(4 * (i - 1) + IndexIn(list_attributes, k))]]
          /\ lists = [r \in 1..(4 * MaxCopyNodes) |->
                         IF ((r - 1) \div 4) + 1 \in full /\ r % 4 = 1
                         THEN <<"a">> ELSE <<>>]
    /\ nops = 0
    /\ outcome = <<>> /\ edits = {}
    /\ NoWalk /\ NoDocument

\* self.append(item) while the tree is built: a node that is in no tree yet
\* is put into an Element of lower number
AttachNode(self, item) ==
    /\ outcome = <<>>
    /\ self < item /\ DocClass(self) # "Text" /\ parent[item] = None
    /\ children' = append(Heap, self, item).children
    /\ parent' = append(Heap, self, item).parent
    /\ _document' = append(Heap, self, item)._document
    /\ UNCHANGED <<nops, walkVars, idVars, auxVars>>

NextDeepcopy ==
    \/ \E self \in DocNodes : \E item \in DocNodes : AttachNode(self, item)
    \/ Deepcopy(1)

SpecDeepcopy == InitDeepcopy /\ [][NextDeepcopy]_vars

\* ======================================================= FilterMessages
\* The document (node 1), a section (node 2) and system messages.
FilterNodes == 1..(2 + MaxMessages)
Messages == {n \in FilterNodes : n > 2}

\* Node._fast_findall(cls): the nodes in the order the iterator yields
\* them; cls is given by the set of its instances
RECURSIVE _fast_findall(_, _, _), findall_children(_, _, _)
_fast_findall(st, self, cls) ==
    (IF self \in cls THEN <<self>> ELSE <<>>)
    \o findall_children(st, st.children[self], cls)

findall_children(st, todo, cls) ==
    IF todo = <<>> THEN <<>>
    ELSE _fast_findall(st, Head(todo), cls)
         \o findall_children(st, Tail(todo), cls)

\* FilterMessages.apply, the loop over the tuple of the nodes found
RECURSIVE apply_loop(_, _, _)
apply_loop(st, found, report_level) ==
    IF found = <<>> \/ st.err # "" THEN st
    ELSE LET node == Head(found)
         IN IF attributes[node].level < report_level
            THEN IF st.parent[node] = None
                 THEN Raise(st, "AttributeError")
                 ELSE apply_loop(remove(st, st.parent[node], node),
                                 Tail(found), report_level)
            ELSE apply_loop(st, Tail(found), report_level)

\* FilterMessages.apply
apply(st) ==
    apply_loop(st, _fast_findall(st, 1, Messages), settings.report_level)

\* the nodes after construction, the level of every system message and the
\* reporter's report_level
InitFilter ==
    /\ children = [n \in FilterNodes |-> <<>>]
    /\ parent = [n \in FilterNodes |-> None]
    /\ _document = [n \in FilterNodes |-> IF n = 1 THEN 1 ELSE None]
    /\ attributes \in [Messages -> [level : 1..MaxLevel]]
    /\ settings \in [report_level : 1..(MaxLevel + 1)]
    /\ nops = 0
    /\ ids = <<>> /\ nameids = <<>> /\ nametypes = <<>> /\ id_counter = <<>>
    /\ substitution_defs = <<>> /\ substitution_names = <<>>
    /\ messages = <<>> /\ last = <<>> /\ noted_explicit = {} /\ ncalls = 0
    /\ NoWalk /\ NoAux

\* Element.append while the document is built, before the transform runs
Attach(self, item) ==
    /\ outcome = <<>>
    /\ nops < MaxAttach
    /\ self < item
    /\ children' = append(Now, self, item).children
    /\ parent' = append(Now, self, item).parent
    /\ _document' = append(Now, self, item)._document
    /\ nops' = nops + 1
    /\ UNCHANGED <<walkVars, idVars, auxVars>>

\* the transform has run: what it leaves
Applied(st) ==
    /\ Len(outcome) < MaxApplies
    /\ children' = st.children
    /\ parent' = st.parent
    /\ _document' = st._document
    /\ outcome' = Append(outcome,
                         [method |-> "apply", err |-> st.err,
                          before |-> [children |-> children,
                                      parent |-> parent],
                          after |-> [children |-> st.children,
                                     parent |-> st.parent]])
    /\ UNCHANGED <<nops, walkVars, idVars, edits, objects, lists>>

FilterMessages == Applied(apply(Now))

NextFilter ==
    \/ \E self \in FilterNodes : \E item \in FilterNodes \ {1} :
          Attach(self, item)
    \/ FilterMessages

SpecFilter == InitFilter /\ [][NextFilter]_vars

\* ================================================================ findall
\* Trees of Elements and Text nodes, two of the Text nodes with equal
\* strings, and one findall call on a node of the tree. The tree is as
\* the insertion operations build it (every child once, its parent link
\* naming the node that holds it) and is not changed during the iteration.
FindElements == {1, 2, 3, 4, 5}
FindTexts == {21, 22, 23}
FindNodes == FindElements \cup FindTexts

\* isinstance(node, cls) for the classes a condition names
IsA(node, cls) ==
    CASE cls = "Text" -> node \in FindTexts
      [] cls = "Element" -> node \in FindElements
      [] OTHER -> TRUE
Instances(cls) == {n \in FindNodes : IsA(n, cls)}

\* the condition passed: None, a node class, or a function that tests
\* the class of the node
Conditions ==
    {[kind |-> "None", cls |-> "Node"]}
    \cup [kind : {"class", "function"}, cls : {"Text", "Element"}]

\* findall, lines 274-278: condition is None or condition(node)
Satisfies(condition, node) ==
    condition.kind = "None" \/ IsA(node, condition.cls)

\* ---- the iterators. findall, _fast_findall and _superfast_findall are
\* generators: a call creates the iterator, and each next() runs the code
\* up to the next yield, on the tree as it then is. An iterator is the
\* stack of its suspended activations; an activation is a record of the
\* function (fn), its arguments, the place it stands at (pc), the position
\* of its loop over the children (i: the list is read anew at every round),
\* the siblings its slice has copied and still has to visit (todo), and the
\* variable `node` of the loop that ascends (cur).
Activation(fn, self, condition, include_self, descend, siblings, ascend) ==
    [fn |-> fn, node |-> self, pc |-> "start", i |-> 0, todo |-> <<>>,
     cur |-> self, condition |-> condition, include_self |-> include_self,
     descend |-> descend, siblings |-> siblings, ascend |-> ascend]

\* what running an activation up to its next yield, call or return gives:
\* the stack then, the node yielded (None: none) and the exception raised
Goes(frames) == [frames |-> frames, value |-> None, err |-> ""]
Yields(frames, node) == [frames |-> frames, value |-> node, err |-> ""]
Raises(e) == [frames |-> <<>>, value |-> None, err |-> e]

\* yield from child.<fn>(...): the activation of the callee
Delegate(f, fn, child, include_self, descend) ==
    Activation(fn, child, f.condition, include_self, descend, FALSE, FALSE)

\* (a variant that yields the node and its direct children, as iter does)
_superfast_direct(st, rest, f) ==
    IF f.pc = "start"
    THEN Yields(Append(rest, [f EXCEPT !.pc = "loop"]), f.node)
    ELSE IF f.i < Len(st.children[f.node])
    THEN Yields(Append(rest, [f EXCEPT !.i = @ + 1]),
                st.children[f.node][f.i + 1])
    ELSE Goes(rest)

\* Node._superfast_findall, lines 209-216; rest is the stack below f
_superfast_findall(st, rest, f) ==
    IF f.pc = "start"
    THEN Yields(Append(rest, [f EXCEPT !.pc = "loop"]), f.node)
    ELSE IF f.i < Len(st.children[f.node])
    THEN Goes(rest \o << [f EXCEPT !.i = @ + 1],
                         Delegate(f, "_superfast_findall",
                                  st.children[f.node][f.i + 1], TRUE, TRUE) >>)
    ELSE Goes(rest)

\* Node._fast_findall, lines 202-207, as an iterator
fast_findall(st, rest, f) ==
    IF f.pc = "start"
    THEN IF IsA(f.node, f.condition.cls)
         THEN Yields(Append(rest, [f EXCEPT !.pc = "loop"]), f.node)
         ELSE Goes(Append(rest, [f EXCEPT !.pc = "loop"]))
    ELSE IF f.i < Len(st.children[f.node])
    THEN Goes(rest \o << [f EXCEPT !.i = @ + 1],
                         Delegate(f, "_fast_findall",
                                  st.children[f.node][f.i + 1], TRUE, TRUE) >>)
    ELSE Goes(rest)

\* list.index(item, start): the first position from start on whose element
\* is == item, 0-based; -1 stands for ValueError
IndexFrom(s, item, start) ==
    IF \E k \in (start + 1)..Len(s) : NodeEq(s[k], item)
    THEN (CHOOSE k \in (start + 1)..Len(s) :
             /\ NodeEq(s[k], item)
             /\ \A l \in (start + 1)..(k - 1) : ~NodeEq(s[l], item)) - 1
    ELSE 0 - 1

\* (a variant without the extra check: the first child == node)
own_index_first(s, node, index) == index

\* findall, lines 287-289: while node.parent[index] is not node:
\* index = node.parent.index(node, index + 1)
RECURSIVE own_index(_, _, _)
own_index(s, node, index) ==
    IF index < 0 \/ s[index + 1] = node THEN index
    ELSE own_index(s, node, IndexFrom(s, node, index + 1))

\* findall, lines 285-290: the first round of `while node.parent`, up to the
\* slice node.parent[index+1:], which copies the siblings
findall_up(st, rest, f) ==
    IF st.parent[f.cur] = None THEN Goes(rest)
    ELSE LET s == st.children[st.parent[f.cur]]
             index == own_index(s, f.cur, IndexFrom(s, f.cur, 0))
         IN IF index < 0 THEN Raises("ValueError")
            ELSE Goes(Append(rest,
                             [f EXCEPT !.pc = "siblings",
                                       !.todo = SubSeq(s, index + 2, Len(s))]))

\* Node.findall, lines 218-299, from the place the activation stands at to
\* its next yield, call or return
findall_step(st, rest, f) ==
    CASE f.pc = "start" ->
           \* lines 258-268: the fast paths
           IF f.include_self /\ f.descend /\ ~(f.siblings \/ f.ascend)
                 /\ f.condition.kind \in {"None", "class"}
           THEN Goes(rest \o << [f EXCEPT !.pc = "return"],
                                Delegate(f, IF f.condition.kind = "None"
                                            THEN "_superfast_findall"
                                            ELSE "_fast_findall",
                                         f.node, TRUE, TRUE) >>)
           ELSE Goes(Append(rest, [f EXCEPT !.pc = "self"]))
      [] f.pc = "return" -> Goes(rest)
      [] f.pc = "self" ->
           \* lines 277-278
           IF f.include_self /\ Satisfies(f.condition, f.node)
           THEN Yields(Append(rest, [f EXCEPT !.pc = "descend"]), f.node)
           ELSE Goes(Append(rest, [f EXCEPT !.pc = "descend"]))
      [] f.pc = "descend" ->
           \* lines 279-283: for child in self
           IF f.descend /\ f.i < Len(st.children[f.node])
           THEN Goes(rest \o << [f EXCEPT !.i = @ + 1],
                                Delegate(f, "findall",
                                         st.children[f.node][f.i + 1],
                                         TRUE, TRUE) >>)
           ELSE IF f.siblings \/ f.ascend
           THEN Goes(Append(rest, [f EXCEPT !.pc = "up"]))
           ELSE Goes(rest)
      [] f.pc = "up" -> findall_up(st, rest, f)
      [] f.pc = "siblings" ->
           \* lines 290-298: for sibling in the slice; then break or ascend
           IF f.todo # <<>>
           THEN Goes(rest \o << [f EXCEPT !.todo = Tail(@)],
                                Delegate(f, "findall", Head(f.todo), TRUE,
                                         f.descend) >>)
           ELSE IF ~f.ascend THEN Goes(rest)
           ELSE Goes(Append(rest, [f EXCEPT !.pc = "up",
                                            !.cur = st.parent[f.cur]]))

\* the activation on top of the stack runs
Step(st, frames) ==
    LET f == frames[Len(frames)]
        rest == SubSeq(frames, 1, Len(frames) - 1)
    IN CASE f.fn = "_superfast_findall" -> _superfast_findall(st, rest, f)
         [] f.fn = "_fast_findall" -> fast_findall(st, rest, f)
         [] OTHER -> findall_step(st, rest, f)

\* next(iterator): the code runs up to the next yield; the value None with
\* no exception stands for StopIteration
RECURSIVE Resume(_, _)
Resume(st, frames) ==
    IF frames = <<>> THEN Goes(<<>>)
    ELSE LET r == Step(st, frames)
         IN IF r.value # None \/ r.err # "" THEN r ELSE Resume(st, r.frames)

\* list(iterator) on a tree that does not change: the nodes yielded
RECURSIVE Drain(_, _, _)
Drain(st, frames, found) ==
    LET r == Resume(st, frames)
    IN IF r.value = None THEN found
       ELSE Drain(st, r.frames, Append(found, r.value))

\* list(self.findall(condition, include_self, descend, siblings, ascend))
findall(st, self, condition, include_self, descend, siblings, ascend) ==
    Drain(st, << Activation("findall", self, condition, include_self,
                            descend, siblings \/ ascend, ascend) >>, <<>>)

\* the children of the node at position i of the tree, as nodes
KidsAt(pf, lab, i) ==
    [k \in 1..Cardinality({j \in DOMAIN pf : pf[j] = i}) |->
        lab[SetToSeq({j \in DOMAIN pf : pf[j] = i})[k]]]

\* the trees: a shape, and the node at each position of it; Text nodes
\* are leaves, and of the trees that differ by a renumbering of the
\* Elements one is taken
InitFind ==
    /\ \E n \in 1..MaxFindNodes : \E pf \in TreeShapes(n) :
          \E lab \in [1..n -> FindNodes] :
             /\ \A i, j \in 1..n : i # j => lab[i] # lab[j]
             /\ lab[1] = 1
             /\ \A i \in 2..n : lab[pf[i]] \in FindElements
             /\ \A i \in 1..n : lab[i] \in FindElements =>
                    lab[i] = 1 + Cardinality({j \in 1..(i - 1) :
                                                lab[j] \in FindElements})
             /\ children = [x \in FindNodes |->
                               IF \E i \in 1..n : lab[i] = x
                               THEN KidsAt(pf, lab,
                                           CHOOSE i \in 1..n : lab[i] = x)
                               ELSE <<>>]
             /\ parent = [x \in FindNodes |->
                             IF \E i \in 2..n : lab[i] = x
                             THEN lab[pf[CHOOSE i \in 2..n : lab[i] = x]]
                             ELSE None]
    /\ _document = [x \in FindNodes |-> None]
    /\ nops = 0
    /\ NoRegistry /\ NoWalk /\ NoAux

\* the nodes of the tree
InTree(x) == x = 1 \/ parent[x] # None

\* the call of findall and the iterator it has returned
Found == outcome[1]

\* it = self.findall(condition, include_self, descend, siblings, ascend):
\* the call creates the iterator and runs nothing (line 256, if ascend:
\* siblings = True, is put first)
FindallCall(self, condition, include_self, descend, siblings, ascend) ==
    /\ outcome = <<>>
    /\ InTree(self)
    /\ outcome' = << [method |-> "findall", node |-> self,
                      condition |-> condition,
                      include_self |-> include_self, descend |-> descend,
                      siblings |-> siblings, ascend |-> ascend,
                      result |-> <<>>, err |-> "", done |-> FALSE] >>
    /\ objects' = << Activation("findall", self, condition, include_self,
                                descend, siblings \/ ascend, ascend) >>
    /\ UNCHANGED <<treeVars, walkVars, idVars, edits, lists>>

\* next(it): the node yielded is put after the nodes yielded before; the
\* iterator is done when it stops or raises
FindallNext ==
    /\ outcome # <<>> /\ ~Found.done
    /\ LET r == Resume(Now, objects) IN
       /\ objects' = r.frames
       /\ outcome' = << [Found EXCEPT
                            !.result = IF r.value # None
                                       THEN Append(@, r.value) ELSE @,
                            !.err = r.err,
                            !.done = r.value = None] >>
    /\ UNCHANGED <<treeVars, walkVars, idVars, edits, lists>>

\* a node that is not in the tree, to be put into it: the next Element and
\* the next Text node
NewItems ==
    LET out == {x \in FindNodes : ~InTree(x)}
        least(S) == {x \in S : \A y \in S : x <= y}
    IN least(out \cap FindElements) \cup least(out \cap FindTexts)

\* the caller changes the tree between two nodes: self.insert(0, item)
\* with a new node
FindInsert(self, index, item) ==
    /\ outcome # <<>> /\ ~Found.done /\ Found.result # <<>>
    /\ nops < MaxFindEdits
    /\ InTree(self) /\ item \in NewItems
    /\ index = 0
    /\ children' = insert(Now, self, index, item).children
    /\ parent' = insert(Now, self, index, item).parent
    /\ _document' = insert(Now, self, index, item)._document
    /\ nops' = nops + 1
    /\ UNCHANGED <<walkVars, idVars, auxVars>>

\* the caller changes the tree between two nodes: self.remove(item)
FindRemove(self, item) ==
    /\ outcome # <<>> /\ ~Found.done /\ Found.result # <<>>
    /\ nops < MaxFindEdits
    /\ InTree(self) /\ item \in Range(children[self])
    /\ children' = remove(Now, self, item).children
    /\ parent' = remove(Now, self, item).parent
    /\ _document' = remove(Now, self, item)._document
    /\ nops' = nops + 1
    /\ UNCHANGED <<walkVars, idVars, auxVars>>

NextFind ==
    \/ \E self \in FindNodes : \E condition \in Conditions :
          \E include_self, descend, siblings, ascend \in BOOLEAN :
             FindallCall(self, condition, include_self, descend, siblings,
                         ascend)
    \/ FindallNext
    \/ \E self \in FindElements : \E item \in FindNodes :
          FindInsert(self, 0, item)
    \/ \E self \in FindElements : \E item \in FindNodes :
          FindRemove(self, item)

SpecFind == InitFind /\ [][NextFind]_vars

\* ================================================================ make_id
\* The characters of the strings make_id is called on: letters of both
\* cases, a digit, a hyphen, whitespace, punctuation, a composed letter
\* and a letter-like symbol whose decomposition is an upper-case letter.
IdAlphabet == {"a", "B", "1", "-", " ", "_", "U+00E9", "U+2102"}

IdStrings == UNION {[1..n -> IdAlphabet] : n \in 0..MaxIdLen}

InitMakeId ==
    /\ children = <<>> /\ parent = <<>> /\ _document = <<>> /\ nops = 0
    /\ NoWalk /\ NoRegistry /\ NoAux

\* make_id(string)
MakeId(string) ==
    /\ outcome = <<>>
    /\ outcome' = <<[method |-> "make_id", string |-> string,
                     id |-> make_id(string)]>>
    /\ UNCHANGED <<treeVars, walkVars, idVars, edits, objects, lists>>

NextMakeId == outcome = <<>> /\ \E string \in IdStrings : MakeId(string)

SpecMakeId == InitMakeId /\ [][NextMakeId]_vars

\* ================================================================ claims
\* the traversal call has handed its result to the caller
WalkDone == stack = <<>>

\* the nodes of the subtree of n in document (pre-order) order
RECURSIVE PreOrder(_)
RECURSIVE PreOrderList(_)
PreOrderList(s) == IF s = <<>> THEN <<>>
                   ELSE PreOrder(Head(s)) \o PreOrderList(Tail(s))
PreOrder(n) == <<n>> \o PreOrderList(children[n])

RECURSIVE Ancestors(_)
Ancestors(n) == IF parent[n] = None THEN {}
                ELSE {parent[n]} \cup Ancestors(parent[n])

\* m comes after n in the pre-order of the traversed tree
After(m, n) == IndexIn(PreOrder(WalkRoot), m) > IndexIn(PreOrder(WalkRoot), n)

\* StopTraversal, raised by visit methods, is the only signal of the visitor
OnlyStopRaised ==
    /\ \A n \in DOMAIN vsig : vsig[n] \in {NoSignal, "StopTraversal"}
    /\ \A n \in DOMAIN dsig : dsig[n] = NoSignal

\* C1: in root.walkabout(visitor), when the visitor's visit method raises
\* StopTraversal on N: visit was dispatched on N and is dispatched on no node
\* after N in pre-order; and when the call is over, dispatch_departure has
\* been called on N and on every ancestor of N, and the call returned true.
C1_StopTraversalUnwinds ==
    (mode = "walkabout" /\ OnlyStopRaised) =>
        \A n \in DOMAIN vsig : vsig[n] = "StopTraversal" =>
            /\ n \in Range(visited)
            /\ \A m \in DOMAIN vsig : After(m, n) => m \notin Range(visited)
            /\ WalkDone =>
                  /\ n \in Range(departed)
                  /\ \A a \in Ancestors(n) : a \in Range(departed)
                  /\ ret = "True"

\* a finished walkabout in which StopTraversal was raised on a node that has
\* an ancestor and that is followed by another node
C1_Witness ==
    /\ mode = "walkabout" /\ WalkDone /\ OnlyStopRaised
    /\ \E n \in DOMAIN vsig :
          /\ vsig[n] = "StopTraversal"
          /\ Ancestors(n) # {}
          /\ \E m \in DOMAIN vsig : After(m, n)

\* C2: no pruning signal raised by a visit or depart method leaves the
\* walk() / walkabout() call that started the traversal: the call returns.
C2_SignalsNeverEscape ==
    WalkDone => ret \in {"True", "False"}


\* ------------------------------------------------------ child-list claims
\* the Elements that hold x in their children list
Holders(x) == {e \in TreeElements : x \in Range(children[e])}

\* C3: single-parent invariant: every node is in the children list of at
\* most one Element, and that Element is the node's parent.
C3_SingleParent ==
    \A x \in TreeNodes :
        /\ Cardinality(Holders(x)) <= 1
        /\ \A e \in Holders(x) : parent[x] = e

\* following parent links from n ends at a node without parent
RECURSIVE ChainEnds(_, _)
ChainEnds(n, fuel) ==
    IF n = None THEN TRUE
    ELSE IF fuel = 0 THEN FALSE
    ELSE ChainEnds(parent[n], fuel - 1)

\* C4: the parent chain of every node is finite and acyclic, no node is its
\* own child, and resolving a node's document terminates.
C4_ParentChainAcyclic ==
    \A n \in TreeNodes :
        /\ ChainEnds(n, Cardinality(TreeNodes))
        /\ n \in TreeElements => n \notin Range(children[n])
        /\ document(Now, n) # Diverges

\* how often x occurs in the list s
Count(s, x) == Cardinality({i \in DOMAIN s : s[i] = x})

\* the state after the step
Then == [children |-> children', parent |-> parent',
         _document |-> _document', err |-> ""]

\* C5: every operation that puts a node x into the children of an Element e
\* has adopted it: right after the operation x.parent is e and, when e
\* resolves to a document, x.document is that document.
C5_InsertionAdopts ==
    [][\A e \in TreeElements : \A x \in TreeNodes :
          Count(children'[e], x) > Count(children[e], x) =>
              /\ parent'[x] = e
              /\ document(Then, e) \notin {None, Diverges} =>
                    document(Then, x) = document(Then, e)]_vars

\* a Text node is a child of an Element below a document root and has been
\* given that document; and a document root that was made a child of the
\* other document root resolves to that one
C5_Witness ==
    \/ \E e \in TreeElements \ TreeDocuments : \E x \in TreeTexts :
          /\ x \in Range(children[e]) /\ parent[x] = e
          /\ parent[e] \in TreeDocuments
          /\ _document[x] = parent[e]
    \/ \E d \in TreeDocuments : \E x \in TreeDocuments \ {d} :
          /\ x \in Range(children[d]) /\ parent[x] = d
          /\ document(Now, d) = d /\ document(Now, x) = d

\* --------------------------------------------------------- registry claims
\* both nodes are external targets with the same refuri
SameRefuri(n1, n2) ==
    /\ "refuri" \in DOMAIN attributes[n1]
    /\ "refuri" \in DOMAIN attributes[n2]
    /\ attributes[n1].refuri = attributes[n2].refuri

\* C6: after note_explicit_target was called on two distinct nodes that
\* carried the same name (not both external targets with the same refuri)
\* and the last call has returned, the ids of both nodes are keys of ids,
\* nameids[name] is None, and both nodes have the name in dupnames and not
\* in names
C6_ExplicitDuplicatesInvalidated ==
    \A p, q \in noted_explicit :
        (/\ p[1] # q[1] /\ p[2] = q[2] /\ ~SameRefuri(p[1], q[1])
         /\ last.err = "none") =>
            /\ \A n \in {p[1], q[1]} :
                  /\ Range(attributes[n].ids) \subseteq DOMAIN ids
                  /\ p[2] \in Range(attributes[n].dupnames)
                  /\ p[2] \notin Range(attributes[n].names)
            /\ nameids[p[2]] = NoId

\* the name is registered with the id of a node that is, like the node, an
\* external target with the same refuri
SharesRefuri(node, name) ==
    /\ nameids[name] # NoId
    /\ SameRefuri(node, ids[nameids[name][1]])

\* C7: the message of a registration call about a duplicate explicit target
\* name has level 3 (ERROR), unless the node and the node the name is
\* registered for are external targets with the same refuri
C7_ExplicitCollisionIsError ==
    [][\A i \in DOMAIN messages' :
          (/\ messages'[i].text = "Duplicate explicit target name"
           /\ ~SharesRefuri(last'.node, messages'[i].about))
             => messages'[i].level = 3]_vars

\* C8 (as stated): set_id on a node that carries ids returns the first id
C8_SetIdReturnsFirstId ==
    (ncalls > 0 /\ last.ids # <<>>) => last.id = last.ids[1]

\* C8 (as the code has it): set_id on a node that carries ids returns the
\* last id of the node's ids list
C8_SetIdReturnsLastId ==
    (ncalls > 0 /\ last.ids # <<>>) => last.id = last.ids[Len(last.ids)]

\* set_id has run on a node that carries two different ids
C8_Witness ==
    /\ ncalls > 0
    /\ Len(last.ids) > 1 /\ last.ids[1] # last.ids[Len(last.ids)]

\* C9: an id that is a key of ids stays a key and keeps its node under
\* every registration call; a call on another node that carries the id
\* only produces the "Duplicate ID" message
C9_FirstRegistrantWins ==
    [][/\ \A id \in DOMAIN ids : id \in DOMAIN ids' /\ ids'[id] = ids[id]
       /\ \A id \in DOMAIN ids \cap Range(attributes[last'.node].ids) :
             ids[id] # last'.node =>
                \E i \in DOMAIN messages' :
                    /\ messages'[i].text = "Duplicate ID"
                    /\ messages'[i].about = id]_vars

\* a node was registered that carries an id another node is registered
\* with, after a call that registered some other id
C9_Witness ==
    /\ ncalls > 1
    /\ \E id \in Range(last.ids) : ids[id] # last.node
    /\ \E i \in DOMAIN messages : messages[i].text = "Duplicate ID"

\* C10: every system message the reporter returned during a registration
\* call has been added to a node (none is dropped)
C10_MessagesAttached ==
    \A i \in DOMAIN messages : messages[i].parent # None


\* C11: duplicate ids and duplicate names are never raised as errors: every
\* note_implicit_target / note_explicit_target call of every sequence of
\* such calls completes without an exception.
C11_DuplicatesNeverRaise ==
    ncalls > 0 => last.err = "none"


\* ------------------------------------------------------ validation claims
\* the validation call that this step makes on node n
Validates(n, method) ==
    /\ Len(outcome') = Len(outcome) + 1
    /\ outcome'[Len(outcome')].node = n
    /\ outcome'[Len(outcome')].method = method

AttributeTexts == {"Attribute not one of", "Attribute has invalid value"}

\* the node has an attribute that is not permitted or has an invalid value
HasAttributeError(n) ==
    \E key \in DOMAIN attributes[n] :
       attribute_message(Validating, n, key) # <<>>

\* the children of the node do not comply with its content model
HasContentError(n) ==
    \/ validate_content(Validating, content_model(Class(n)),
                        children[n]).err # "none"
    \/ validate_content(Validating, content_model(Class(n)),
                        children[n]).leftover # <<>>

\* C12: a validate() call on a node that has both an invalid attribute and
\* children violating its content model raises one ValidationError that
\* reports both the attribute problem and the structural problem.
C12_ValidateReportsAll ==
    [][\A n \in VContainers :
          (Validates(n, "validate") /\ HasAttributeError(n)
           /\ HasContentError(n))
          => /\ outcome'[Len(outcome')].err = "ValidationError"
             /\ \E i \in DOMAIN outcome'[Len(outcome')].messages :
                   outcome'[Len(outcome')].messages[i].text
                      \in AttributeTexts
             /\ \E i \in DOMAIN outcome'[Len(outcome')].messages :
                   outcome'[Len(outcome')].messages[i].text
                      \notin AttributeTexts]_vars

\* the element at position i exists and is of the category
Matches(elements, i, category) ==
    i <= Len(elements) /\ isinstance(elements[i], category)

\* the position after the maximal run of matches that starts at i
RunEnd(elements, i, category) ==
    CHOOSE j \in i..(Len(elements) + 1) :
       /\ \A k \in i..(j - 1) : Matches(elements, k, category)
       /\ ~Matches(elements, j, category)

ReferenceError(elements, i) ==
    [err |-> "ValidationError",
     text |-> IF i > Len(elements) THEN "Missing child of type"
              ELSE "Expecting child of type",
     leftover |-> <<>>]

\* the reference matcher: left to right, greedy, without backtracking
RECURSIVE Reference(_, _, _)
Reference(model, elements, i) ==
    IF model = <<>>
    THEN [err |-> "none", text |-> "",
          leftover |-> SubSeq(elements, i, Len(elements))]
    ELSE IF Head(model)[2] = "."
    THEN IF Matches(elements, i, Head(model)[1])
         THEN Reference(Tail(model), elements, i + 1)
         ELSE ReferenceError(elements, i)
    ELSE IF Head(model)[2] = "?"
    THEN Reference(Tail(model), elements,
                   IF Matches(elements, i, Head(model)[1]) THEN i + 1
                   ELSE i)
    ELSE IF Head(model)[2] = "+" /\ ~Matches(elements, i, Head(model)[1])
    THEN ReferenceError(elements, i)
    ELSE Reference(Tail(model), elements,
                   RunEnd(elements, i, Head(model)[1]))

\* the position check of the child fails
Misplaced(child) == check_position(Validating, child).err # "none"

\* the first misplaced child among elements[i..j-1], 0 when there is none
FirstMisplaced(elements, i, j) ==
    IF \E k \in i..(j - 1) : Misplaced(elements[k])
    THEN CHOOSE k \in i..(j - 1) :
            /\ Misplaced(elements[k])
            /\ \A l \in i..(k - 1) : ~Misplaced(elements[l])
    ELSE 0

PositionError(child) ==
    [err |-> check_position(Validating, child).err,
     text |-> check_position(Validating, child).messages[1].text,
     leftover |-> <<>>]

\* the reference matcher that also checks the position of every child it
\* consumes
RECURSIVE ReferencePositioned(_, _, _)
Consume(model, elements, i, j) ==
    IF FirstMisplaced(elements, i, j) # 0
    THEN PositionError(elements[FirstMisplaced(elements, i, j)])
    ELSE ReferencePositioned(Tail(model), elements, j)

ReferencePositioned(model, elements, i) ==
    IF model = <<>>
    THEN [err |-> "none", text |-> "",
          leftover |-> SubSeq(elements, i, Len(elements))]
    ELSE IF Head(model)[2] = "."
    THEN IF Matches(elements, i, Head(model)[1])
         THEN Consume(model, elements, i, i + 1)
         ELSE ReferenceError(elements, i)
    ELSE IF Head(model)[2] = "?"
    THEN Consume(model, elements, i,
                 IF Matches(elements, i, Head(model)[1]) THEN i + 1 ELSE i)
    ELSE IF Head(model)[2] = "+" /\ ~Matches(elements, i, Head(model)[1])
    THEN ReferenceError(elements, i)
    ELSE Consume(model, elements, i, RunEnd(elements, i, Head(model)[1]))

\* what a validate_content call did: the exception, the first line of
\* its message, and the children returned
Summary(o) ==
    [err |-> o.err,
     text |-> IF o.messages = <<>> THEN "" ELSE o.messages[1].text,
     leftover |-> o.leftover]

\* C13 (as stated): the outcome of validate_content (error, or leftover
\* list) equals that of the reference matcher for every content model and
\* every sequence of children.
C13_MatchesReference ==
    \A i \in DOMAIN outcome :
       outcome[i].method = "validate_content"
       => Summary(outcome[i])
             = Reference(outcome[i].model, children[outcome[i].node], 1)

\* C13 (amended): the outcome of validate_content equals that of the
\* reference matcher that, in addition, checks the position of every child
\* it consumes and fails at the first child that is misplaced.
C13_MatchesReferencePositioned ==
    \A i \in DOMAIN outcome :
       outcome[i].method = "validate_content"
       => Summary(outcome[i])
             = ReferencePositioned(outcome[i].model,
                                   children[outcome[i].node], 1)

\* (list_item)+ has accepted [list_item, list_item] with no leftover
C13_Witness ==
    /\ outcome # <<>>
    /\ outcome[1].method = "validate_content"
    /\ outcome[1].model = << << <<"list_item">>, "+" >> >>
    /\ children[outcome[1].node] = <<9, 10>>
    /\ outcome[1].err = "none" /\ outcome[1].leftover = <<>>

\* the node has a subtitle at index 0 or after a child that is no title
MisplacedSubtitle(n) ==
    \E i \in DOMAIN children[n] :
       /\ Class(children[n][i]) = "subtitle"
       /\ i = 1 \/ Class(children[n][i - 1]) # "title"

\* C14: in a document, section or sidebar, a subtitle at index 0 or after
\* a child that is not the title makes validate() fail.
C14_SubtitleOnlyAfterTitle ==
    [][\A n \in {1, 2, 3} :
          (Validates(n, "validate") /\ MisplacedSubtitle(n))
          => outcome'[Len(outcome')].err = "ValidationError"]_vars


\* ------------------------------------------------- changing-tree claims
\* the visitor has raised no signal
NoSignalRaised ==
    /\ \A n \in DOMAIN vsig : vsig[n] = NoSignal
    /\ \A n \in DOMAIN dsig : dsig[n] = NoSignal

\* C15: walk() and walkabout() iterate over a snapshot of the children: a
\* child the visitor removes from (or replaces in) a node's children while
\* the node's loop has it still to come is visited all the same (in a
\* traversal the visitor does not cut short with a signal), and a new
\* child put into a node's children after the node's snapshot is not
\* visited in this traversal.
C15_SnapshotIteration ==
    \A e \in edits :
       /\ (e.op = "insert" /\ e.snapshot) => e.child \notin Range(visited)
       /\ (e.op = "remove" /\ e.snapshot /\ WalkDone /\ NoSignalRaised)
          => e.child \in Range(visited)

\* a traversal without signals is over in which the visitor has removed a
\* child that was still to come and that was visited later
C15_Witness ==
    /\ WalkDone /\ NoSignalRaised
    /\ \E e \in edits :
          /\ e.op = "remove" /\ e.snapshot
          /\ e.child \in Range(visited)
          /\ e.child \notin Range(children[e.self])
    /\ \E e \in edits :
          /\ e.op = "insert" /\ e.snapshot
          /\ e.child \in Range(children[e.self])
          /\ e.child \notin Range(visited)


\* ----------------------------------------------------------- copy claims
\* the calls of one method that have run
Copies(method) == {i \in DOMAIN outcome : outcome[i].method = method}

\* the nodes that existed before the call are as they were
OriginalUnchanged(o) ==
    \A n \in DOMAIN o.before.parent :
       /\ o.after.children[n] = o.before.children[n]
       /\ o.after.parent[n] = o.before.parent[n]
       /\ o.after.attributes[n] = o.before.attributes[n]
       /\ o.after.objects[n] = o.before.objects[n]

\* the list attributes of node n as they are now
ListsNow(n) ==
    [k \in DOMAIN attributes[n] \cap Range(list_attributes) |->
        Deref([lists |-> lists], attributes[n])[k]]

\* C16: for every Element e, e.copy() returns a new object, not identical
\* to e, with the same tagname and attributes equal to e's, with no
\* children and no parent; e and its children are unchanged, and later
\* changes to the copy's list attributes do not change e's lists.
C16_CopyIsFresh ==
    \A i \in Copies("copy") :
       LET o == outcome[i]
           e == o.node
           c == o.result
       IN /\ o.err = ""
          /\ c \notin DOMAIN o.before.parent
          /\ o.after.objects[c].tagname = o.before.objects[e].tagname
          /\ o.after.attributes[c] = o.before.attributes[e]
          /\ o.after.children[c] = <<>>
          /\ o.after.parent[c] = None
          /\ OriginalUnchanged(o)
          /\ \A k \in DOMAIN ListsNow(e) :
                ListsNow(e)[k] = o.before.attributes[e][k]

\* the nodes of the subtree of n in the trees t
RECURSIVE Subtree(_, _)
Subtree(t, n) ==
    {n} \cup UNION {Subtree(t, t.children[n][k]) : k \in DOMAIN t.children[n]}

\* the subtree of a before the call and the subtree of b after it have the
\* same tagnames, attributes, text and child order
RECURSIVE SameShape(_, _, _)
SameShape(o, a, b) ==
    /\ o.after.objects[b] = o.before.objects[a]
    /\ o.after.attributes[b] = o.before.attributes[a]
    /\ Len(o.after.children[b]) = Len(o.before.children[a])
    /\ \A k \in DOMAIN o.before.children[a] :
          SameShape(o, o.before.children[a][k], o.after.children[b][k])

\* C17: for every Element e, e.deepcopy() returns a tree with the same
\* shape as e's subtree in which no node is identical to a node of the
\* original; every copied child's parent is its copied parent, the root
\* of the copy has no parent, and the original subtree is unchanged.
C17_DeepcopyIsFresh ==
    \A i \in Copies("deepcopy") :
       LET o == outcome[i]
           e == o.node
           c == o.result
       IN /\ o.err = ""
          /\ SameShape(o, e, c)
          /\ Subtree(o.after, c) \cap DOMAIN o.before.parent = {}
          /\ \A n \in Subtree(o.after, c) :
                \A k \in DOMAIN o.after.children[n] :
                   o.after.parent[o.after.children[n][k]] = n
          /\ o.after.parent[c] = None
          /\ OriginalUnchanged(o)


\* -------------------------------------------------------- filter claims
\* the system messages below the report level that can be reached from
\* the document through the children lists t
BelowThreshold(t) ==
    {n \in Subtree(t, 1) \cap Messages :
        attributes[n].level < settings.report_level}

\* C18: after FilterMessages.apply() no system_message whose level is
\* below the reporter's report_level is reachable from the document, and
\* applying the transform a second time to the same tree makes no further
\* change.
C18_FilterIdempotent ==
    \A i \in DOMAIN outcome :
       /\ outcome[i].err = ""
       /\ BelowThreshold(outcome[i].after) = {}
       /\ i > 1 => outcome[i].after = outcome[i].before


\* -------------------------------------------------------- make_id claims
AlNum == Range(LowerCase) \cup Range(Digits)

\* t matches (-?[a-z0-9]+)*
RECURSIVE MatchesRest(_)
MatchesRest(t) ==
    \/ t = <<>>
    \/ t[1] \in AlNum /\ MatchesRest(Tail(t))
    \/ /\ t[1] = "-" /\ Len(t) >= 2 /\ t[2] \in AlNum
       /\ MatchesRest(Tail(Tail(t)))

\* s matches [a-z](-?[a-z0-9]+)*
MatchesId(s) == s # <<>> /\ s[1] \in Range(LowerCase) /\ MatchesRest(Tail(s))

\* C19: for every input string, make_id returns either the empty string or
\* a string matching [a-z](-?[a-z0-9]+)*.
C19_MakeIdPattern ==
    \A i \in DOMAIN outcome :
       outcome[i].id = <<>> \/ MatchesId(outcome[i].id)

\* make_id has turned a string that begins with a digit and ends with
\* characters that are not allowed into an identifier with a hyphen in it
C19_Witness ==
    \E i \in DOMAIN outcome :
       /\ outcome[i].method = "make_id"
       /\ outcome[i].string = <<"1", "B", "_", "U+00E9">>
       /\ outcome[i].id = <<"b", "-", "e">>


\* ------------------------------------------------- name-to-id table claims
\* the row of the transition table in the docstring of set_name_id_map for
\* a name that is registered or not, with an old id or None, an old type,
\* the new type, and (the footnote) targets that share their refuri: the
\* new id ("new", "old" or "none"), the new type, the kind of the system
\* message and the nodes whose name becomes a dupname
TableRow(registered, has_old, old_type, explicit, same_uri) ==
    CASE ~registered ->
           [id |-> "new", type |-> explicit, msg |-> "none",
            dup_new |-> FALSE, dup_old |-> FALSE]
      [] registered /\ explicit /\ ~old_type ->
           [id |-> "new", type |-> TRUE,
            msg |-> IF has_old THEN "implicit" ELSE "none",
            dup_new |-> FALSE, dup_old |-> has_old]
      [] registered /\ explicit /\ old_type ->
           [id |-> IF has_old /\ same_uri THEN "old" ELSE "none",
            type |-> TRUE, msg |-> "explicit",
            dup_new |-> TRUE, dup_old |-> has_old /\ ~same_uri]
      [] registered /\ ~explicit /\ ~old_type ->
           [id |-> "none", type |-> FALSE, msg |-> "implicit",
            dup_new |-> TRUE, dup_old |-> has_old]
      [] registered /\ ~explicit /\ old_type ->
           [id |-> IF has_old THEN "old" ELSE "none", type |-> TRUE,
            msg |-> "implicit", dup_new |-> TRUE, dup_old |-> FALSE]

\* the kinds of the messages about duplicate names among msgs, in order
NameMessageKinds(msgs) ==
    LET about_names == SelectSeq(msgs, LAMBDA m : m.text # "Duplicate ID")
    IN [i \in DOMAIN about_names |->
           IF about_names[i].text = "Duplicate explicit target name"
           THEN "explicit" ELSE "implicit"]

\* the step has moved the name of the node to its dupnames, or has left
\* both lists alone
NameMoved(n, name, moved) ==
    IF moved
    THEN /\ name \in Range(attributes'[n].dupnames)
         /\ name \notin Range(attributes'[n].names)
    ELSE /\ attributes'[n].names = attributes[n].names
         /\ attributes'[n].dupnames = attributes[n].dupnames

\* the step is a call that has returned and has done for the name of the
\* node what the row of the table says
FollowsTable(node, name, explicit) ==
    LET registered == name \in DOMAIN nameids
        has_old == registered /\ nameids[name] # NoId
        old_node == ids[nameids[name][1]]
        row == TableRow(registered, has_old,
                        registered /\ nametypes[name], explicit,
                        has_old /\ SameRefuri(node, old_node))
    IN /\ last'.err = "none"
       /\ nameids'[name] = CASE row.id = "new" -> SomeId(last'.id)
                             [] row.id = "old" -> nameids[name]
                             [] row.id = "none" -> NoId
       /\ nametypes'[name] = row.type
       /\ NameMessageKinds(messages') =
             IF row.msg = "none" THEN <<>> ELSE <<row.msg>>
       /\ IF has_old /\ old_node = node
          THEN NameMoved(node, name, row.dup_new \/ row.dup_old)
          ELSE /\ NameMoved(node, name, row.dup_new)
               /\ has_old => NameMoved(old_node, name, row.dup_old)

\* the step is a note_explicit_target (explicit) or note_implicit_target
\* call on the node
Noted(node, explicit) ==
    \E msgnode \in {None} \cup MsgNodes :
       IF explicit THEN NoteExplicitTarget(node, msgnode)
       ELSE NoteImplicitTarget(node, msgnode)

\* C20: set_name_id_map follows the transition table of its docstring for
\* every combination of old state and incoming type: a call on a node with
\* one name leaves nameids[name], nametypes[name], the dupnames of the
\* old and the new node and the system message of the matching row.
C20_TransitionTable ==
    [][\A node \in IdNodes : \A explicit \in BOOLEAN :
          (Noted(node, explicit) /\ Len(attributes[node].names) = 1)
          => FollowsTable(node, attributes[node].names[1], explicit)]_vars

\* SkipSiblings, raised by visit methods, is the only signal of the visitor
OnlySkipSiblingsRaised ==
    /\ \A n \in DOMAIN vsig : vsig[n] \in {NoSignal, "SkipSiblings"}
    /\ \A n \in DOMAIN dsig : dsig[n] = NoSignal

\* the siblings to the right of n
RightSiblings(n) ==
    IF parent[n] = None THEN {}
    ELSE LET s == children[parent[n]]
         IN {s[i] : i \in {j \in DOMAIN s : j > IndexIn(s, n)}}

\* C21: when a visit method raises SkipSiblings on N during walk() or
\* walkabout(), no sibling to the right of N is visited; and when the
\* traversal is over, every child of N has been visited and, in walkabout,
\* dispatch_departure has been called on N.
C21_SkipSiblingsKeepsChildren ==
    OnlySkipSiblingsRaised =>
        \A n \in DOMAIN vsig : vsig[n] = "SkipSiblings" =>
            /\ \A m \in RightSiblings(n) : m \notin Range(visited)
            /\ WalkDone =>
                  /\ \A c \in Range(children[n]) : c \in Range(visited)
                  /\ mode = "walkabout" => n \in Range(departed)

\* the part of C21 about the siblings: none to the right of N is visited
C21_SiblingsSkipped ==
    OnlySkipSiblingsRaised =>
        \A n \in DOMAIN vsig : vsig[n] = "SkipSiblings" =>
            \A m \in RightSiblings(n) : m \notin Range(visited)

\* C22: every ValidationError raised by validate, validate_attributes,
\* validate_content or a check_position hook carries a node in
\* problematic_element, never None.
C22_ErrorCarriesNode ==
    \A k \in DOMAIN outcome :
        outcome[k].err = "ValidationError" => outcome[k].problematic # None

\* the part of C22 that holds: only the report of a missing child carries
\* None; every other ValidationError carries a node of the validated tree
C22_ErrorCarriesNodeUnlessMissing ==
    \A k \in DOMAIN outcome :
        outcome[k].err = "ValidationError" =>
            \/ outcome[k].problematic \in VNodes
            \/ /\ outcome[k].problematic = None
               /\ Len(outcome[k].messages) = 1
               /\ outcome[k].messages[1].text = "Missing child of type"

\* a registration call runs set_id on a node whose ids list is empty
GeneratesId == ncalls' = ncalls + 1 /\ attributes[last'.node].ids = <<>>

\* no two distinct nodes share an id
IdsDisjoint ==
    \A n1, n2 \in IdNodes :
        n1 # n2 => Range(attributes[n1].ids) \cap Range(attributes[n2].ids) = {}

\* C23: set_id on a node with an empty ids list appends exactly one id to
\* the node's ids list; the id was not a key of the document's ids map
\* before the call and maps to the node afterwards. Hence where every node
\* starts without ids, no two distinct nodes ever share an id.
C23_GeneratedIdIsFresh ==
    /\ []IdsDisjoint
    /\ [][GeneratesId =>
            /\ Len(attributes'[last'.node].ids) = 1
            /\ attributes'[last'.node].ids[1] \notin DOMAIN ids
            /\ attributes'[last'.node].ids[1] \in DOMAIN ids'
            /\ ids'[attributes'[last'.node].ids[1]] = last'.node
            /\ last'.id = attributes'[last'.node].ids[1]]_vars

\* two nodes with the same name have both been given an id
C23_Witness ==
    \E n1, n2 \in IdNodes :
        /\ n1 # n2
        /\ attributes[n1].ids # <<>> /\ attributes[n2].ids # <<>>
        /\ NameA \in Range(attributes[n1].names) \cup Range(attributes[n1].dupnames)
        /\ NameA \in Range(attributes[n2].names) \cup Range(attributes[n2].dupnames)
        /\ last.node = n2 /\ last.ids = <<>>

\* the id derived from a name, and whether set_id can use it
DerivedId(name) == settings.id_prefix \o base_id_of(name)
Usable(name) == base_id_of(name) # <<>> /\ DerivedId(name) \notin DOMAIN ids

\* the first name of the node whose derived id is usable
FirstUsable(names) ==
    names[CHOOSE i \in DOMAIN names :
             /\ Usable(names[i])
             /\ \A j \in 1..(i - 1) : ~Usable(names[j])]

\* the id is the prefix with the first number above the prefix's counter
\* that gives an id no node is registered with; the counter is left there
CountedId(id, prefix) ==
    \E k \in 1..(MaxCalls + 1) :
        /\ id = prefix \o str(k)
        /\ k > Count0(id_counter, prefix)
        /\ id \notin DOMAIN ids
        /\ \A j \in (Count0(id_counter, prefix) + 1)..(k - 1) :
              (prefix \o str(j)) \in DOMAIN ids
        /\ Count0(id_counter', prefix) = k

\* the id set_id has given to the node of the step
GivenId == attributes'[last'.node].ids[1]

\* the step is a set_id call with this suggested_prefix
SetIdWith(suggested_prefix) ==
    GeneratesId /\ \E node \in IdNodes : SetId(node, None, suggested_prefix)

\* C24 (as stated): set_id takes the id derived from the first name whose
\* derived id is non-empty and not registered; when no name yields one, the
\* id is the node's tagname (after id_prefix) with a counter suffix.
C24_FallbackIsTagname ==
    [][\A sp \in SuggestedPrefixes : SetIdWith(sp) =>
          LET names == attributes[last'.node].names IN
          IF \E i \in DOMAIN names : Usable(names[i])
          THEN GivenId = DerivedId(FirstUsable(names))
          ELSE CountedId(GivenId,
                         settings.id_prefix \o make_id(tagname) \o <<"-">>)]_vars

\* the prefix of the counted id: the id derived from the node's last name
\* and "-", if that id is non-empty and auto_id_prefix ends with "%";
\* otherwise id_prefix + auto_id_prefix, a trailing "%" of which stands
\* for suggested_prefix (the tagname if there is none) and "-"
FallbackPrefix(names, sp) ==
    LET lastbase == IF names = <<>> THEN <<>>
                    ELSE base_id_of(names[Len(names)])
        auto == settings.auto_id_prefix
        stem == SubSeq(auto, 1, Len(auto) - 1)
    IN IF auto # <<>> /\ auto[Len(auto)] = "%"
       THEN IF lastbase # <<>>
            THEN settings.id_prefix \o lastbase \o <<"-">>
            ELSE settings.id_prefix \o stem
                 \o (IF sp = <<>> THEN make_id(tagname) ELSE sp) \o <<"-">>
       ELSE settings.id_prefix \o auto

\* C24 (as the code has it): set_id takes the id derived from the first
\* name whose derived id is non-empty and not registered; when no name
\* yields one, the id is a prefix with a counter suffix, the prefix being
\* derived from the node's last name if it can be, and otherwise built
\* from auto_id_prefix, the suggested prefix and the tagname.
C24_FallbackIsCounted ==
    [][\A sp \in SuggestedPrefixes : SetIdWith(sp) =>
          LET names == attributes[last'.node].names IN
          IF \E i \in DOMAIN names : Usable(names[i])
          THEN GivenId = DerivedId(FirstUsable(names))
          ELSE CountedId(GivenId, FallbackPrefix(names, sp))]_vars

\* set_id has counted on from the id of a name another node is registered
\* with, after it gave that node the name's id
C24_Witness ==
    /\ ncalls > 1
    /\ last.ids = <<>>
    /\ last.id = <<"a", "-", "1">>
    /\ <<"a">> \in DOMAIN ids /\ ids[<<"a">>] # last.node

\* the explicit name of the node collides with a registered explicit name
\* that is resolved to the id of another node, and both nodes are external
\* targets with the same refuri
CollidesSameUri(node, name) ==
    /\ name \in DOMAIN nameids
    /\ nametypes[name]
    /\ nameids[name] # NoId
    /\ ids[nameids[name][1]] # node
    /\ SameRefuri(node, ids[nameids[name][1]])

\* the old registration is kept, the new node alone is invalidated, and
\* the message about the name is at info level
OldKept(node, name) ==
    /\ last'.err = "none"
    /\ nameids'[name] = nameids[name]
    /\ name \in Range(attributes'[ids[nameids[name][1]]].names)
    /\ name \in Range(attributes'[node].dupnames)
    /\ name \notin Range(attributes'[node].names)
    /\ \E i \in DOMAIN messages' :
          /\ messages'[i].text = "Duplicate explicit target name"
          /\ messages'[i].about = name
    /\ \A i \in DOMAIN messages' :
          messages'[i].text = "Duplicate explicit target name"
             => messages'[i].level = 1

\* C25: when note_explicit_target finds the name registered as an explicit
\* name that is still resolved to an id, and the old and the new target
\* carry the same refuri, the old registration is kept (nameids[name] is
\* unchanged and the old node keeps the name), only the new node's name is
\* moved to dupnames, and the message has level 1.
C25_SameUriKeepsOld ==
    [][\A node \in IdNodes : \A name \in Range(attributes[node].names) :
          (/\ \E msgnode \in {None} \cup MsgNodes :
                 NoteExplicitTarget(node, msgnode)
           /\ CollidesSameUri(node, name))
             => OldKept(node, name)]_vars

\* the part of C25 that holds: the same, where the old node still has the
\* name in its names list
C25_SameUriKeepsNamedOld ==
    [][\A node \in IdNodes : \A name \in Range(attributes[node].names) :
          (/\ \E msgnode \in {None} \cup MsgNodes :
                 NoteExplicitTarget(node, msgnode)
           /\ CollidesSameUri(node, name)
           /\ name \in Range(attributes[ids[nameids[name][1]]].names))
             => OldKept(node, name)]_vars

\* C26: a node whose parent is the Element P is contained in P.children
C26_ParentHoldsChild ==
    \A n \in DOMAIN parent :
        parent[n] # None => n \in Range(children[parent[n]])

\* the last operation on a child list, and the children it found
LastChange == outcome[Len(outcome)]

\* the operation was called on a child of the Element, which held each of
\* its children once, and has returned
ActedOnChild(method) ==
    /\ outcome # <<>>
    /\ LastChange.method = method
    /\ LastChange.err = ""
    /\ LastChange.item \in Range(LastChange.before)
    /\ \A i, j \in DOMAIN LastChange.before :
          i # j => LastChange.before[i] # LastChange.before[j]

\* C27: P.replace(old, new) puts new at the position held by old itself
\* and leaves every other child in place, and P.remove(old) removes old
\* itself, also when P has an earlier Text child equal in value to old.
C27_ActsOnTheChildItself ==
    /\ ActedOnChild("replace") =>
          children[LastChange.node] =
             [LastChange.before
                 EXCEPT ![IndexIn(LastChange.before, LastChange.item)] =
                           LastChange.new]
    /\ ActedOnChild("remove") =>
          children[LastChange.node] =
             RemoveAt(LastChange.before,
                      IndexIn(LastChange.before, LastChange.item) - 1)

\* the part of C27 that holds: the same, where no earlier child is a Text
\* node equal in value to old
NoEarlierEqual ==
    \A i \in 1..(IndexIn(LastChange.before, LastChange.item) - 1) :
        ~NodeEq(LastChange.before[i], LastChange.item)

C27_ActsOnTheFirstEqualChild ==
    /\ (ActedOnChild("replace") /\ NoEarlierEqual) =>
          children[LastChange.node] =
             [LastChange.before
                 EXCEPT ![IndexIn(LastChange.before, LastChange.item)] =
                           LastChange.new]
    /\ (ActedOnChild("remove") /\ NoEarlierEqual) =>
          children[LastChange.node] =
             RemoveAt(LastChange.before,
                      IndexIn(LastChange.before, LastChange.item) - 1)

\* the findall call that has run
\* the iterator has run to its end and the tree was not changed meanwhile
Exhausted == outcome # <<>> /\ Found.done /\ nops = 0

\* the siblings located after the node itself, in order
FollowingSiblings(n) ==
    IF parent[n] = None THEN <<>>
    ELSE SubSeq(children[parent[n]], IndexIn(children[parent[n]], n) + 1,
                Len(children[parent[n]]))

\* the nodes of a sequence that satisfy the condition of the call
Kept(s) == SelectSeq(s, LAMBDA x : Satisfies(Found.condition, x))

\* C28: findall(siblings=True) or findall(ascend=True) started on a node
\* continues from the node's own position in its parent, also when an
\* earlier sibling is a Text node equal in value to it: of the children of
\* its parent, exactly the node itself (with include_self) and the siblings
\* located after it are yielded, each once and in order (by an iterator
\* that has run to its end on a tree that was not changed meanwhile).
C28_SiblingsFromOwnPosition ==
    (/\ Exhausted
     /\ Found.siblings \/ Found.ascend
     /\ parent[Found.node] # None) =>
        SelectSeq(Found.result, LAMBDA x : parent[x] = parent[Found.node])
           = Kept((IF Found.include_self THEN <<Found.node>> ELSE <<>>)
                  \o FollowingSiblings(Found.node))

\* findall has looked for the siblings of a Text node that has an earlier
\* sibling equal in value and a sibling after it, and has yielded one
C28_Witness ==
    /\ Exhausted
    /\ Found.siblings /\ ~Found.include_self
    /\ Found.node \in FindTexts
    /\ \E i \in 1..(IndexIn(children[parent[Found.node]], Found.node) - 1) :
          NodeEq(children[parent[Found.node]][i], Found.node)
    /\ FollowingSiblings(Found.node) # <<>>
    /\ Found.result # <<>>

\* the nodes below n
Descendants(n) == Range(PreOrder(n)) \ {n}

\* the nodes and, with descend, the nodes below them
WithDescendants(S, descend) ==
    S \cup (IF descend THEN UNION {Descendants(x) : x \in S} ELSE {})

\* the nodes findall is asked for
Scope(n, include_self, descend, siblings, ascend) ==
    (IF include_self THEN {n} ELSE {})
    \cup (IF descend THEN Descendants(n) ELSE {})
    \cup (IF siblings \/ ascend
          THEN WithDescendants(Range(FollowingSiblings(n)), descend)
          ELSE {})
    \cup (IF ascend
          THEN WithDescendants(
                   UNION {Range(FollowingSiblings(a)) : a \in Ancestors(n)},
                   descend)
          ELSE {})

\* the nodes of the scope of the call that satisfy its condition, in
\* document order
Expected ==
    Kept(SelectSeq(PreOrder(1),
                   LAMBDA x : x \in Scope(Found.node, Found.include_self,
                                          Found.descend, Found.siblings,
                                          Found.ascend)))

IsPrefix(s, t) == Len(s) <= Len(t) /\ s = SubSeq(t, 1, Len(s))

\* C29: findall yields, each node at most once and in document order, the
\* nodes of its scope (the node itself, its descendants, its following
\* siblings, the following siblings of its ancestors, as the arguments
\* say) that satisfy the condition; and where a fast path is taken (no
\* condition or a class, self and descendants only) the nodes yielded are
\* those the general path yields for a function that tests the same (the
\* iterator has run to its end on a tree that was not changed meanwhile;
\* before its end it has yielded the first nodes of that sequence).
C29_FindallYieldsScope ==
    (outcome # <<>> /\ nops = 0) =>
        /\ Found.err = ""
        /\ IsPrefix(Found.result, Expected)
        /\ Found.done => Found.result = Expected
        /\ (/\ Found.done
            /\ Found.include_self /\ Found.descend
            /\ ~(Found.siblings \/ Found.ascend)
            /\ Found.condition.kind \in {"None", "class"}) =>
              Found.result =
                 findall(Now, Found.node,
                         [kind |-> "function", cls |-> Found.condition.cls],
                         TRUE, TRUE, FALSE, FALSE)

\* findall has ascended from a node two levels down, without a condition,
\* and has yielded the node and a following sibling of the node's parent
C29_Witness ==
    /\ Exhausted
    /\ Found.ascend /\ Found.include_self /\ Found.condition.kind = "None"
    /\ parent[Found.node] # None /\ parent[parent[Found.node]] # None
    /\ Found.node \in Range(Found.result)
    /\ \E x \in Range(FollowingSiblings(parent[Found.node])) :
          x \in Range(Found.result)


\* ------------------------------------------------ C30: transition placement
\* child i of the node is a transition that begins the node (it is the first
\* child or follows a title, subtitle, meta or decoration), ends it, or
\* follows another transition
MisplacedAt(n, i) ==
    /\ Class(children[n][i]) = "transition"
    /\ \/ i = 1
       \/ i = Len(children[n])
       \/ Class(children[n][i - 1])
             \in {"title", "subtitle", "meta", "decoration", "transition"}

MisplacedTransition(n) == \E i \in DOMAIN children[n] : MisplacedAt(n, i)

TransitionTexts ==
    {"<transition> may not begin a section or document.",
     "<transition> may not end a section or document.",
     "<transition> may not directly follow another transition."}

\* the call that has just ended raised an error about the position of a
\* transition that is a child of the node
TransitionRejected(n) ==
    /\ outcome'[Len(outcome')].problematic \in Range(children[n])
    /\ \E i \in DOMAIN outcome'[Len(outcome')].messages :
          outcome'[Len(outcome')].messages[i].text \in TransitionTexts

\* the validation of node n has treated its transitions as the rule says
PlacementRule(n) ==
    Validates(n, "validate")
    => /\ MisplacedTransition(n)
          => outcome'[Len(outcome')].err = "ValidationError"
       /\ ~MisplacedTransition(n) => ~TransitionRejected(n)

\* C30: validate() fails on a document or section that has a transition as
\* first child, after a title or subtitle, as last child or after another
\* transition, and raises no transition error when it has no such transition.
C30_TransitionPlacement ==
    [][\A n \in TransitionParents : PlacementRule(n)]_vars

\* every child is held once, by the node its parent link names
HeldOnce ==
    \A n \in VElements : \A i \in DOMAIN children[n] :
       /\ parent[children[n][i]] = n
       /\ \A j \in DOMAIN children[n] : children[n][j] = children[n][i] => j = i

\* the part of C30 that holds: in a tree where every child is held once, by
\* the node its parent link names, validate() treats transitions as stated.
C30_PlacementInProperTree ==
    [][HeldOnce => \A n \in TransitionParents : PlacementRule(n)]_vars

\* a document with a transition between a paragraph and a section has been
\* accepted
C30_Accepted ==
    /\ HeldOnce /\ outcome # <<>>
    /\ outcome[1].node = 1 /\ children[1] = <<7, 8, 2>>
    /\ outcome[1].err = "none"

\* a section with a transition after another transition has been rejected
C30_Rejected ==
    /\ HeldOnce /\ outcome # <<>>
    /\ outcome[1].node = 2 /\ children[2] = <<5, 7, 8, 12>>
    /\ outcome[1].err = "ValidationError"
    /\ outcome[1].problematic = 12


\* -------------------------------------------------- C31: SkipNode, SkipChildren
\* SkipNode and SkipChildren, raised by visit methods, are the only signals
OnlySkipsRaised ==
    /\ \A n \in DOMAIN vsig : vsig[n] \in {NoSignal, "SkipNode", "SkipChildren"}
    /\ \A n \in DOMAIN dsig : dsig[n] = NoSignal

\* C31: in walkabout(), when a visit method raises SkipNode or SkipChildren
\* on N: no descendant of N is visited; after SkipNode depart is never called
\* on N; and when the traversal is over, depart has been called once on a
\* node with SkipChildren, every sibling to the right of N has been visited,
\* the next one right after N, and walkabout has returned false.
C31_SkipNodeSkipChildren ==
    (mode = "walkabout" /\ OnlySkipsRaised) =>
        \A n \in DOMAIN vsig : vsig[n] \in {"SkipNode", "SkipChildren"} =>
            /\ \A d \in Descendants(n) : d \notin Range(visited)
            /\ vsig[n] = "SkipNode" => n \notin Range(departed)
            /\ WalkDone =>
                  /\ vsig[n] = "SkipChildren" => Count(departed, n) = 1
                  /\ \A m \in RightSiblings(n) : m \in Range(visited)
                  /\ FollowingSiblings(n) # <<>> =>
                        visited[IndexIn(visited, n) + 1]
                           = Head(FollowingSiblings(n))
                  /\ ret = "False"

\* a finished walkabout in which SkipNode was raised on a node that has a
\* child and a sibling to its right, and SkipChildren on that sibling
C31_Witness ==
    /\ mode = "walkabout" /\ WalkDone /\ OnlySkipsRaised
    /\ \E n \in DOMAIN vsig :
          /\ vsig[n] = "SkipNode"
          /\ Descendants(n) # {}
          /\ \E m \in RightSiblings(n) :
                vsig[m] = "SkipChildren" /\ m \in Range(departed)


\* --------------------------------------------- C32: the copy of a document
\* C32: in the tree deepcopy() of a document returns, every node, at every
\* depth, resolves its document to the root of the copy.
C32_CopyResolvesToCopy ==
    \A i \in Copies("deepcopy") :
       objects[outcome[i].node].class = "document" =>
          /\ outcome[i].err = ""
          /\ \A n \in Subtree(outcome[i].after, outcome[i].result) :
                document(Heap, n) = outcome[i].result

\* the part of C32 that holds: the root of the copy and its children
\* resolve their document to the root of the copy.
C32_ChildrenResolveToCopy ==
    \A i \in Copies("deepcopy") :
       objects[outcome[i].node].class = "document" =>
          /\ outcome[i].err = ""
          /\ \A n \in {outcome[i].result}
                      \cup Range(outcome[i].after.children[outcome[i].result]) :
                document(Heap, n) = outcome[i].result


\* ------------------------------------------- C33: names resolve to their node
\* every name that is resolved to an id belongs to the node of that id: the
\* node has it in names and not in dupnames
NamesResolveToHolder ==
    \A name \in DOMAIN nameids :
       nameids[name] # NoId =>
          /\ nameids[name][1] \in DOMAIN ids
          /\ name \in Range(attributes[ids[nameids[name][1]]].names)
          /\ name \notin Range(attributes[ids[nameids[name][1]]].dupnames)

NamedOnce ==
    \A n \in IdNodes :
       \A i, j \in DOMAIN (attributes[n].names \o attributes[n].dupnames) :
          (attributes[n].names \o attributes[n].dupnames)[i]
             = (attributes[n].names \o attributes[n].dupnames)[j] => i = j

ImplicitCall ==
    \E target \in IdNodes : \E msgnode \in {None} \cup MsgNodes :
       NoteImplicitTarget(target, msgnode)

\* C34: in every note_implicit_target / note_explicit_target call, a name
\* that is explicit stays explicit, an explicit name that is cleared to
\* None stays None, and an explicit name resolved to an id keeps that id
\* when the call is note_implicit_target.
C34_TypeOnlyRises ==
    [][\A name \in DOMAIN nametypes :
          nametypes[name] =>
             /\ name \in DOMAIN nametypes' /\ nametypes'[name]
             /\ name \in DOMAIN nameids'
             /\ nameids[name] = NoId => nameids'[name] = NoId
             /\ (nameids[name] # NoId /\ ImplicitCall)
                   => nameids'[name] = nameids[name]]_vars

\* two explicit targets with the same name have cleared the name, and a
\* third target with that name has been noted as implicit afterwards
C34_Witness ==
    /\ ncalls = 3 /\ last.err = "none"
    /\ NameA \in DOMAIN nametypes /\ nametypes[NameA]
    /\ nameids[NameA] = NoId
    /\ noted_explicit = {<<1, NameA>>, <<2, NameA>>}
    /\ last.node = 3 /\ NameA \in Range(attributes[3].dupnames)


\* ------------------------------------------- C35: names move to dupnames
\* names + dupnames of a node, as the attribute dictionary a has them
AllNames(a) == a.names \o a.dupnames

\* the step leaves names + dupnames of every node the same collection
NamesKept ==
    \A n \in IdNodes :
       \A name \in Range(AllNames(attributes[n]))
                   \cup Range(AllNames(attributes'[n])) :
          Count(AllNames(attributes'[n]), name)
             = Count(AllNames(attributes[n]), name)

\* no node has a name both in names and in dupnames
NoNameInBoth ==
    \A n \in IdNodes :
       Range(attributes[n].names) \cap Range(attributes[n].dupnames) = {}

\* C35: every note_implicit_target / note_explicit_target call leaves the
\* combined collection names + dupnames of every node as it was, and no
\* node ever has a name in both lists.
C35_NamesOnlyMove == [][NamesKept]_vars /\ []NoNameInBoth

\* the part of C35 that holds: when every target is noted once, each call
\* keeps names + dupnames of every node, and a node that was built without
\* a repeated name never has a name in both lists.
C35_NamesOnlyMoveOnce == [][NamesKept]_vars /\ [](NamedOnce => NoNameInBoth)


\* --------------------------------------------- C36: authors.validate_content
\* the place of a class in a group (author+, organization?, address?,
\* contact?); 0 for a class that is not part of a group
GroupRank(cls) ==
    CASE cls = "author" -> 1 [] cls = "organization" -> 2
      [] cls = "address" -> 3 [] cls = "contact" -> 4 [] OTHER -> 0

\* the elements are one or more complete groups: they begin with an author,
\* and every other element is an author or comes later in the group than
\* the element before it
CompleteGroups(s) ==
    /\ s # <<>> /\ Class(s[1]) = "author"
    /\ \A i \in DOMAIN s : GroupRank(Class(s[i])) > 0
    /\ \A i \in DOMAIN s :
          i > 1 => \/ Class(s[i]) = "author"
                   \/ GroupRank(Class(s[i])) > GroupRank(Class(s[i - 1]))

AuthorsCalls ==
    {i \in DOMAIN outcome : outcome[i].method = "validate_content"
                            /\ Class(outcome[i].node) = "authors"}

\* C36: authors.validate_content() returns or raises ValidationError for
\* every child list; every repetition is given fewer elements than the one
\* before; and it returns, an empty list, exactly when the children are one
\* or more complete groups (author+, organization?, address?, contact?).
C36_AuthorsTerminates ==
    \A i \in AuthorsCalls :
       LET o == outcome[i] IN
       /\ o.err \in {"none", "ValidationError"}
       /\ \A k \in DOMAIN o.rounds :
             k > 1 => Len(o.rounds[k]) < Len(o.rounds[k - 1])
       /\ o.err = "none" => o.leftover = <<>>
       /\ o.err = "none" <=> CompleteGroups(children[o.node])

\* the call has returned after two repetitions: the children are two groups
C36_Witness ==
    \E i \in AuthorsCalls :
       /\ outcome[i].err = "none"
       /\ children[outcome[i].node] = <<14, 16, 15>>
       /\ outcome[i].rounds = << <<14, 16, 15>>, <<15>> >>


\* ----------------------------------------------------- C37: unknown nodes
\* the visitor has no method for the node and the node is not one it may
\* leave out: strict mode is on or the kind of the node is not optional
MustImplement(node, methods) ==
    /\ node_name(node) \notin methods
    /\ settings.strict_visitor \/ node_name(node) \notin Range(optional)

\* C37: dispatch_visit and dispatch_departure raise NotImplementedError
\* exactly for a node the visitor has no method for, unless its kind is
\* optional and strict mode is off; the exception ends the traversal, and a
\* traversal in which none is raised visits (and, in walkabout, departs
\* from) every node and returns false.
C37_UnknownNodeIsFatal ==
    /\ \A n \in Range(visited) :
          vsig[n] = "NotImplementedError" <=> MustImplement(n, Visitor.visit)
    /\ \A n \in Range(departed) :
          dsig[n] = "NotImplementedError" <=> MustImplement(n, Visitor.depart)
    /\ WalkDone =>
          IF \E n \in DOMAIN vsig : "NotImplementedError" \in {vsig[n], dsig[n]}
          THEN ret = "NotImplementedError"
          ELSE /\ ret = "False"
               /\ visited = PreOrder(WalkRoot)
               /\ mode = "walkabout" => Range(departed) = DOMAIN children

\* a finished walkabout, strict mode off, of a tree with a meta element the
\* visitor has neither method for, and a node visited after it
C37_Witness ==
    /\ mode = "walkabout" /\ WalkDone /\ ret = "False"
    /\ ~settings.strict_visitor
    /\ Visitor.visit = {"paragraph"} /\ Visitor.depart = {"paragraph"}
    /\ \E n \in DOMAIN children :
          /\ node_name(n) = "meta"
          /\ n \in Range(visited) /\ n \in Range(departed)
          /\ \E m \in DOMAIN children : After(m, n) /\ m \in Range(visited)


\* ------------------------------------------------- C38: nested departures
\* the position of the call on n among the calls made so far
CallOf(calls, n) == IndexIn(calls, n)

\* C38: in walkabout() with a visitor that raises no signal (the tree is
\* not modified), every node is visited at most once and departed from at
\* most once; a node departed from has been visited, and all its
\* descendants were departed from before it; a node is visited only after
\* the departure from each of its earlier siblings; when the traversal is
\* over every visited node has been departed from, and the visits were
\* made, in walkabout() as in walk(), in document order.
C38_DeparturesNested ==
    NoSignalRaised =>
       /\ \A n \in Range(visited) : Count(visited, n) = 1
       /\ \A n \in Range(departed) :
             /\ mode = "walkabout"
             /\ Count(departed, n) = 1
             /\ n \in Range(visited)
             /\ \A d \in Descendants(n) :
                   /\ d \in Range(departed)
                   /\ CallOf(departed, d) < CallOf(departed, n)
       /\ \A n \in Range(visited) : \A m \in RightSiblings(n) :
             (mode = "walkabout" /\ m \in Range(visited))
                => n \in Range(departed)
       /\ WalkDone =>
             /\ visited = PreOrder(WalkRoot)
             /\ mode = "walkabout" => Range(departed) = Range(visited)

\* a finished walkabout without a signal, of a tree in which a node has a
\* child and a later sibling
C38_Witness ==
    /\ mode = "walkabout" /\ WalkDone /\ NoSignalRaised
    /\ departed # <<>>
    /\ \E n \in Range(departed) :
          Descendants(n) # {} /\ RightSiblings(n) # {}


\* --------------------------------------------------- C39: the decoration
\* the number of leading children that are a title, a subtitle or a meta
RECURSIVE LeadingTitles(_)
LeadingTitles(s) ==
    IF s # <<>> /\ Class(Head(s)) \in {"title", "subtitle", "meta"}
    THEN 1 + LeadingTitles(Tail(s)) ELSE 0

\* this step is a call of get_decoration on the document
DecorationCall ==
    /\ Len(outcome') = Len(outcome) + 1
    /\ outcome'[Len(outcome')].method = "get_decoration"

\* the node the call of this step returns
Returned == outcome'[Len(outcome')].value

\* the call of this step leaves a document that was valid valid
StaysValid ==
    ~HasContentError(DecorationSelf) => ~HasContentError(DecorationSelf)'

\* the first call puts the new decoration after the leading title,
\* subtitle and meta children; a later call returns the node of the first
\* and changes nothing
PlacedOnce ==
    IF outcome = <<>>
    THEN /\ Returned \notin Range(children[DecorationSelf])
         /\ children'[DecorationSelf] =
               InsertAt(children[DecorationSelf],
                        LeadingTitles(children[DecorationSelf]), Returned)
    ELSE /\ Returned = outcome[1].value
         /\ children' = children /\ parent' = parent

\* C39: get_decoration() creates the decoration at most once (a later call
\* returns the same node and inserts nothing), puts it after the leading
\* title, subtitle and meta children of the document and before every
\* other child, and leaves a document that satisfied its content model
\* satisfying it.
C39_DecorationPlacement ==
    [][DecorationCall => (PlacedOnce /\ StaysValid)]_vars

\* C39, the part about later calls: the decoration is created once
C39_DecorationOnce ==
    [][DecorationCall =>
         /\ Count(children'[DecorationSelf], Returned) = 1
         /\ outcome # <<>> =>
               /\ Returned = outcome[1].value
               /\ children' = children /\ parent' = parent]_vars

\* the document has a rubric before its first child that is neither a
\* title, a subtitle, a meta nor a rubric
LeadingRubric ==
    \E i \in DOMAIN children[DecorationSelf] :
       /\ Class(children[DecorationSelf][i]) = "rubric"
       /\ \A j \in 1..(i - 1) :
             isinstance(children[DecorationSelf][j], <<"Titular", "meta">>)

\* C39 for a document without such a rubric
C39_PlacementWithoutRubric ==
    [][(DecorationCall /\ ~LeadingRubric) => (PlacedOnce /\ StaysValid)]_vars

\* a valid document with a title, a meta and a paragraph has its decoration
\* between the meta and the paragraph, after two calls
C39_Placed ==
    /\ Len(outcome) = 2
    /\ children[DecorationSelf] = <<5, 19, NewDecoration, 7>>
    /\ ~HasContentError(DecorationSelf)

\* a document that began with a rubric and a paragraph, after the call
C39_AfterRubric ==
    /\ outcome # <<>>
    /\ children[DecorationSelf] = <<20, NewDecoration, 7>>
    /\ HasContentError(DecorationSelf)

====
